---- MODULE Spec2Model ----
(***************************************************************************)
(* GraphExec: the workflow engine (app/core/engine.py), the graph          *)
(* validator (app/models/schemas.py), the tool registry                    *)
(* (app/tools/registry.py) and the callers of the engine in app/routes.    *)
(*                                                                         *)
(* The engine runs on one asyncio event loop.  A task runs without         *)
(* interruption until it awaits something that is not ready; the only such *)
(* await inside WorkflowEngine._execute is the tool invocation.  The       *)
(* variable `active` names the run whose task currently holds the event    *)
(* loop (0 when the loop is free to schedule any ready task).              *)
(***************************************************************************)
EXTENDS Integers, Sequences, FiniteSets, TLC

VARIABLES
    graphs,     \* WorkflowEngine.graphs : graph_id -> GraphDefinition
    runs,       \* WorkflowEngine._runs  : run_id (1..Len) -> RunState
    tasks,      \* the frame of each run's _execute task: pc, graph, current, node, exc
    published,  \* per run, the messages handed to _notify_subscribers, in call order
    queues,     \* the asyncio.Queue created by each subscribe call (by handler)
    handlers,   \* websocket_run_logs connections
    callers,    \* callers of run_graph / wait_for_run
    active      \* run whose task holds the event loop, 0 if none

vars == <<graphs, runs, tasks, published, queues, handlers, callers, active>>

(***************************************************************************)
(* Bounds of the model.                                                    *)
(***************************************************************************)
MaxRuns == 2
MaxHandlers == 1
MaxCallers == 2
\* the model keeps the MaxLog most recent entries of a log; Room keeps a run from
\* a visit whose entries would not fit, so that where Room guards the visits every
\* log of the model is the whole log of the run
MaxLog == 12
\* the longest code submitted to the code review, in lines
MaxLines == 5

(***************************************************************************)
(* Python values.  None in a position that holds a name (node reference,   *)
(* key, operator, tool name) is Null; values of the state bag and          *)
(* comparison targets are tagged.  A list held in the state bag is a       *)
(* reference to an object of the run: a copy of the bag made by dict(...)  *)
(* holds the same reference.                                               *)
(***************************************************************************)
Null == "<None>"
NoneV == [t |-> "none"]
IntV(n) == [t |-> "int", v |-> n]
RefV(a) == [t |-> "ref", a |-> a]
\* bool(s) of a name or of None: the empty string is false as None is
Truthy(s) == s # Null /\ s # ""

EmptyMap == [k \in {} |-> NoneV]
Map1(k, v) == [j \in {k} |-> v]

\* a str by its lines, and a line by what the tools of the code review test on
\* it: whether it starts with "def ", holds a branch keyword, is longer than 100
\* characters, holds "TODO"
StrV(lines) == [t |-> "str", lines |-> lines]
Line(def, branch, long, todo) == [def |-> def, branch |-> branch, long |-> long, todo |-> todo]
\* a list built by a tool, by its elements
ListV(items) == [t |-> "list", items |-> items]
\* a number rounded to two places, round(x, 2), by its hundredths
DecV(h) == [t |-> "dec", v |-> h]

\* dict.get(key) / dict.get(key, default)
Get(d, k, default) == IF k \in DOMAIN d THEN d[k] ELSE default

\* the empty lists a submitted state bag refers to
Objects(state) ==
    [a \in {state[k].a : k \in {j \in DOMAIN state : state[j].t = "ref"}} |-> <<>>]

\* a value as a reader sees it: a list by its present elements
Deep(value, objects) ==
    IF value.t = "ref" THEN [t |-> "list", items |-> objects[value.a]] ELSE value

DeepMap(d, objects) == [k \in DOMAIN d |-> Deep(d[k], objects)]

\* exceptions: the kind of failure and the name its message carries
Err(kind, arg) == [kind |-> kind, arg |-> arg]
NoErr == Err("none", Null)

Last(s) == s[Len(s)]

\* list.append, on a list of which the model keeps the n most recent entries
Record(s, e, n) == IF Len(s) < n THEN Append(s, e) ELSE Append(Tail(s), e)

RECURSIVE RecordAll(_, _, _)
RecordAll(s, es, n) ==
    IF es = <<>> THEN s ELSE RecordAll(Record(s, Head(es), n), Tail(es), n)

(***************************************************************************)
(* app/models/schemas.py                                                   *)
(***************************************************************************)
NodeNames(g) == {g.nodes[i].name : i \in 1..Len(g.nodes)}

\* NodeViolation with ("on_true",) for ("on_true", "on_false")
NodeViolation_SkipsOnFalse(node, node_names) ==
    IF Truthy(node.next) /\ node.next \notin node_names
    THEN Err("unknown_next", node.next)
    ELSE IF node.type = "conditional"
    THEN IF Truthy(Get(node.config, "on_true", Null)) /\ node.config["on_true"] \notin node_names
         THEN Err("unknown_ref", node.config["on_true"])
         ELSE NoErr
    ELSE IF node.type = "loop"
    THEN IF Truthy(Get(node.config, "body", Null)) /\ node.config["body"] \notin node_names
         THEN Err("unknown_ref", node.config["body"])
         ELSE IF Truthy(Get(node.config, "after", Null)) /\ node.config["after"] \notin node_names
         THEN Err("unknown_ref", node.config["after"])
         ELSE NoErr
    ELSE NoErr

\* the first dangling reference of one node, in the order validate_graph tests them
NodeViolation(node, node_names) ==
    IF Truthy(node.next) /\ node.next \notin node_names
    THEN Err("unknown_next", node.next)
    ELSE IF node.type = "conditional"
    THEN IF Truthy(Get(node.config, "on_true", Null)) /\ node.config["on_true"] \notin node_names
         THEN Err("unknown_ref", node.config["on_true"])
         ELSE IF Truthy(Get(node.config, "on_false", Null)) /\ node.config["on_false"] \notin node_names
         THEN Err("unknown_ref", node.config["on_false"])
         ELSE NoErr
    ELSE IF node.type = "loop"
    THEN IF Truthy(Get(node.config, "body", Null)) /\ node.config["body"] \notin node_names
         THEN Err("unknown_ref", node.config["body"])
         ELSE IF Truthy(Get(node.config, "after", Null)) /\ node.config["after"] \notin node_names
         THEN Err("unknown_ref", node.config["after"])
         ELSE NoErr
    ELSE NoErr

\* GraphDefinition.validate_graph: NoErr, or the ValueError it raises
validate_graph(g) ==
    LET node_names == NodeNames(g)
        bad == {i \in 1..Len(g.nodes) : NodeViolation(g.nodes[i], node_names) # NoErr}
    IN  IF g.start_at \notin node_names
        THEN Err("unknown_start_at", g.start_at)
        ELSE IF bad = {}
        THEN NoErr
        ELSE NodeViolation(g.nodes[CHOOSE i \in bad : \A j \in bad : i <= j], node_names)

(***************************************************************************)
(* app/tools/registry.py.  The registry holds five callables:              *)
(*   double  returns {"x": state["x"] * 2}  (raises when x is missing)     *)
(*   noop    returns None                                                  *)
(*   boom    raises                                                        *)
(*   push    state["items"].append(1), returns None (raises when items is  *)
(*           missing or is no list)                                        *)
(*   mark    state["seen"] = 1, returns None                               *)
(***************************************************************************)
\* the callables register_code_review_workflow binds
ReviewTools == {"extract_functions", "check_complexity", "detect_basic_issues",
                "suggest_improvements", "refine_suggestions"}

RegisteredTools == {"double", "noop", "boom", "push", "mark"} \cup ReviewTools

\* get answering with a callable for every name
ToolsGet_Always(name) == name = name

\* ToolRegistry.get: whether a callable is bound to the name
ToolsGet(name) == name \in RegisteredTools

(***************************************************************************)
(* app/workflows/code_review.py: the five tools                            *)
(***************************************************************************)
Returns(ret) == [raised |-> FALSE, err |-> NoErr, ret |-> ret]
Raises(name) == [raised |-> TRUE, err |-> Err("tool_raised", name), ret |-> EmptyMap]

\* state.get("code", "")
CodeOf(state) == IF "code" \in DOMAIN state THEN state["code"] ELSE StrV(<<>>)

\* enumerate(code.splitlines()): the positions of the lines, counted from 1
Positions(lines) == [i \in 1..Len(lines) |-> i]

\* extract_functions: one entry for each line that defines a function
extract_functions(state) ==
    IF CodeOf(state).t # "str"
    THEN Raises("extract_functions")
    ELSE Returns([functions |-> ListV(SelectSeq(Positions(CodeOf(state).lines),
                                              LAMBDA i : CodeOf(state).lines[i].def))])

\* the loop of check_complexity over the lines, `current` being the count so far
RECURSIVE Complexities(_, _)
Complexities(lines, current) ==
    IF lines = <<>>
    THEN <<current>>
    ELSE LET counted == IF Head(lines).branch THEN current + 1 ELSE current
         IN  IF Head(lines).def
             THEN <<counted>> \o Complexities(Tail(lines), 1)
             ELSE Complexities(Tail(lines), counted)

RECURSIVE Sum(_)
Sum(s) == IF s = <<>> THEN 0 ELSE Head(s) + Sum(Tail(s))

\* round(mean(s), 2), in hundredths; no mean of fewer than 200 integers lies
\* halfway between two hundredths
RoundedMean(s) == (200 * Sum(s) + Len(s)) \div (2 * Len(s))

\* check_complexity
check_complexity(state) ==
    IF CodeOf(state).t # "str"
    THEN Raises("check_complexity")
    ELSE Returns([avg_complexity |->
                     DecV(RoundedMean(Complexities(CodeOf(state).lines, 1)))])

\* detect_basic_issues
detect_basic_issues(state) ==
    IF CodeOf(state).t # "str"
    THEN Raises("detect_basic_issues")
    ELSE LET long_lines == SelectSeq(Positions(CodeOf(state).lines),
                                       LAMBDA i : CodeOf(state).lines[i].long)
             todo_comments == SelectSeq(Positions(CodeOf(state).lines),
                                          LAMBDA i : CodeOf(state).lines[i].todo)
             issues == (IF long_lines # <<>>
                        THEN <<[type |-> "long_lines", lines |-> long_lines]>> ELSE <<>>)
                       \o (IF todo_comments # <<>>
                           THEN <<[type |-> "todo_comments", lines |-> todo_comments]>>
                           ELSE <<>>)
         IN  Returns([issues |-> ListV(issues), issue_count |-> IntV(Len(issues))])

\* a number of the state bag in hundredths
Hundredths(value) == IF value.t = "int" THEN 100 * value.v ELSE value.v

IsNumber(value) == value.t \in {"int", "dec"}

\* suggest_improvements: quality_score = round(max(0.1, 1.0 - 0.1 * len(suggestions)), 2);
\* every product and difference here is within 1e-15 of a tenth, so the rounding
\* gives that tenth
suggest_improvements(state) ==
    LET issues == IF "issues" \in DOMAIN state THEN state["issues"] ELSE ListV(<<>>)
        avg_complexity == IF "avg_complexity" \in DOMAIN state
                          THEN state["avg_complexity"] ELSE IntV(1)
    IN  IF issues.t # "list" \/ ~IsNumber(avg_complexity)
        THEN Raises("suggest_improvements")
        ELSE LET HasIssue(type) == \E i \in 1..Len(issues.items) : issues.items[i].type = type
                 suggestions ==
                     (IF Hundredths(avg_complexity) > 500 THEN <<"complexity">> ELSE <<>>)
                     \o (IF HasIssue("long_lines") THEN <<"long_lines">> ELSE <<>>)
                     \o (IF HasIssue("todo_comments") THEN <<"todo_comments">> ELSE <<>>)
                 tenths == 10 - Len(suggestions)
             IN  Returns([suggestions |-> ListV(suggestions),
                          quality_score |-> DecV(10 * (IF tenths > 1 THEN tenths ELSE 1))])

\* refine_suggestions cutting the new score to two places instead of rounding it:
\* 0.7 + 0.1, which is 0.7999999999999999, gives 0.79
refine_suggestions_Truncates(state) ==
    LET previous == IF "suggestions" \in DOMAIN state THEN state["suggestions"]
                    ELSE ListV(<<>>)
        stored == IF "quality_score" \in DOMAIN state THEN state["quality_score"]
                  ELSE DecV(50)
        score == IF stored = NoneV \/ (IsNumber(stored) /\ stored.v = 0)
                 THEN DecV(50) ELSE stored
    IN  IF previous.t # "list" \/ ~IsNumber(score)
        THEN Raises("refine_suggestions")
        ELSE LET new_score == IF Hundredths(score) = 70 THEN 79 ELSE Hundredths(score) + 10
             IN  Returns([suggestions |-> ListV(Append(previous.items, "refine")),
                          quality_score |-> DecV(IF new_score < 100 THEN new_score ELSE 100)])

\* refine_suggestions: new_score = min(1.0, (quality_score or 0.5) + 0.1), rounded
\* to two places: 0.7 + 0.1 is 0.7999999999999999 and rounds to 0.8
refine_suggestions(state) ==
    LET previous == IF "suggestions" \in DOMAIN state THEN state["suggestions"]
                    ELSE ListV(<<>>)
        stored == IF "quality_score" \in DOMAIN state THEN state["quality_score"]
                  ELSE DecV(50)
        score == IF stored = NoneV \/ (IsNumber(stored) /\ stored.v = 0)
                 THEN DecV(50) ELSE stored
    IN  IF previous.t # "list" \/ ~IsNumber(score)
        THEN Raises("refine_suggestions")
        ELSE LET new_score == Hundredths(score) + 10
             IN  Returns([suggestions |-> ListV(Append(previous.items, "refine")),
                          quality_score |-> DecV(IF new_score < 100 THEN new_score ELSE 100)])

\* the callable itself, applied to the state bag
ToolFn(name, state) ==
    CASE name = "extract_functions" -> extract_functions(state)
      [] name = "check_complexity" -> check_complexity(state)
      [] name = "detect_basic_issues" -> detect_basic_issues(state)
      [] name = "suggest_improvements" -> suggest_improvements(state)
      [] name = "refine_suggestions" -> refine_suggestions(state)
      [] name = "double" ->
            IF "x" \in DOMAIN state /\ state["x"] # NoneV
            THEN [raised |-> FALSE, err |-> NoErr, ret |-> Map1("x", IntV(state["x"].v * 2))]
            ELSE [raised |-> TRUE, err |-> Err("tool_raised", name), ret |-> EmptyMap]
      [] name \in {"noop", "mark"} -> [raised |-> FALSE, err |-> NoErr, ret |-> EmptyMap]
      [] name = "push" ->
            IF "items" \in DOMAIN state /\ state["items"].t = "ref"
            THEN [raised |-> FALSE, err |-> NoErr, ret |-> EmptyMap]
            ELSE [raised |-> TRUE, err |-> Err("tool_raised", name), ret |-> EmptyMap]
      [] OTHER -> [raised |-> TRUE, err |-> Err("tool_raised", name), ret |-> EmptyMap]

\* what the callable assigns in the state bag it is handed, and what it does to
\* the objects of that bag: the bag is run_state.state itself, not a copy
ToolWrites(name, state) == IF name = "mark" THEN Map1("seen", IntV(1)) ELSE EmptyMap

ToolObjects(name, state, objects) ==
    IF name = "push" /\ ~ToolFn(name, state).raised
    THEN [objects EXCEPT ![state["items"].a] = Append(@, 1)]
    ELSE objects

\* ToolRegistry.invoke: `result or {}`
ToolsInvoke(name, state) ==
    IF ~ToolsGet(name)
    THEN [raised |-> TRUE, err |-> Err("tool_not_registered", name), ret |-> EmptyMap]
    ELSE ToolFn(name, state)

\* dict.update
Update(state, result) ==
    [k \in DOMAIN state \cup DOMAIN result |->
        IF k \in DOMAIN result THEN result[k] ELSE state[k]]

(***************************************************************************)
(* app/core/engine.py: comparison and the two synchronous node kinds       *)
(***************************************************************************)
Operators == {"==", "!=", ">", ">=", "<", "<="}

\* _compare without `is not None`: ordering None raises TypeError
compare_NoNoneGuard(value, op, target) ==
    CASE op = "==" -> [raised |-> FALSE, result |-> value = target]
      [] op = "!=" -> [raised |-> FALSE, result |-> value # target]
      [] op \in {">", ">=", "<", "<="} ->
            IF value = NoneV \/ target = NoneV
            THEN [raised |-> TRUE, result |-> FALSE]
            ELSE [raised |-> FALSE,
                  result |-> CASE op = ">"  -> value.v > target.v
                               [] op = ">=" -> value.v >= target.v
                               [] op = "<"  -> value.v < target.v
                               [] op = "<=" -> value.v <= target.v]
      [] OTHER     -> [raised |-> TRUE, result |-> FALSE]

\* WorkflowEngine._compare
compare(value, op, target) ==
    CASE op = "==" -> [raised |-> FALSE, result |-> value = target]
      [] op = "!=" -> [raised |-> FALSE, result |-> value # target]
      [] op = ">"  -> [raised |-> FALSE,
                       result |-> value # NoneV /\ target # NoneV /\ value.v > target.v]
      [] op = ">=" -> [raised |-> FALSE,
                       result |-> value # NoneV /\ target # NoneV /\ value.v >= target.v]
      [] op = "<"  -> [raised |-> FALSE,
                       result |-> value # NoneV /\ target # NoneV /\ value.v < target.v]
      [] op = "<=" -> [raised |-> FALSE,
                       result |-> value # NoneV /\ target # NoneV /\ value.v <= target.v]
      [] OTHER     -> [raised |-> TRUE, result |-> FALSE]

\* a or b
Or(a, b) == IF Truthy(a) THEN a ELSE b

Outcome(raised, err, next, counts) ==
    [raised |-> raised, err |-> err, next |-> next, loop_counts |-> counts]

\* _evaluate_conditional with the two branches exchanged
evaluate_conditional_Swapped(node, state, loop_counts) ==
    LET key == Get(node.config, "key", Null)
        op == Get(node.config, "op", "==")
        target == Get(node.config, "value", NoneV)
        on_true == Get(node.config, "on_true", Null)
        on_false == Get(node.config, "on_false", Null)
        value == Get(state, key, NoneV)
        passed == compare(value, op, target)
    IN  IF key = Null
        THEN Outcome(TRUE, Err("missing_key", node.name), Null, loop_counts)
        ELSE IF passed.raised
        THEN Outcome(TRUE, Err("unsupported_operator", op), Null, loop_counts)
        ELSE Outcome(FALSE, NoErr,
                     IF passed.result THEN Or(on_false, node.next) ELSE on_true,
                     loop_counts)

\* _evaluate_conditional returning `on_true or node.next` when the comparison passes
evaluate_conditional_TrueOrNext(node, state, loop_counts) ==
    LET key == Get(node.config, "key", Null)
        op == Get(node.config, "op", "==")
        target == Get(node.config, "value", NoneV)
        on_true == Get(node.config, "on_true", Null)
        on_false == Get(node.config, "on_false", Null)
        value == Get(state, key, NoneV)
        passed == compare(value, op, target)
    IN  IF key = Null
        THEN Outcome(TRUE, Err("missing_key", node.name), Null, loop_counts)
        ELSE IF passed.raised
        THEN Outcome(TRUE, Err("unsupported_operator", op), Null, loop_counts)
        ELSE Outcome(FALSE, NoErr,
                     IF passed.result THEN Or(on_true, node.next) ELSE Or(on_false, node.next),
                     loop_counts)

\* _evaluate_conditional keeping a count of its evaluations in loop_counts
evaluate_conditional_Counts(node, state, loop_counts) ==
    LET key == Get(node.config, "key", Null)
        op == Get(node.config, "op", "==")
        target == Get(node.config, "value", NoneV)
        on_true == Get(node.config, "on_true", Null)
        on_false == Get(node.config, "on_false", Null)
        value == Get(state, key, NoneV)
        passed == compare(value, op, target)
        counted == Update(loop_counts, Map1(node.name, Get(loop_counts, node.name, 0) + 1))
    IN  IF key = Null
        THEN Outcome(TRUE, Err("missing_key", node.name), Null, loop_counts)
        ELSE IF passed.raised
        THEN Outcome(TRUE, Err("unsupported_operator", op), Null, loop_counts)
        ELSE Outcome(FALSE, NoErr,
                     IF passed.result THEN on_true ELSE Or(on_false, node.next),
                     counted)

\* WorkflowEngine._evaluate_conditional
evaluate_conditional(node, state, loop_counts) ==
    LET key == Get(node.config, "key", Null)
        op == Get(node.config, "op", "==")
        target == Get(node.config, "value", NoneV)
        on_true == Get(node.config, "on_true", Null)
        on_false == Get(node.config, "on_false", Null)
        value == Get(state, key, NoneV)
        passed == compare(value, op, target)
    IN  IF key = Null
        THEN Outcome(TRUE, Err("missing_key", node.name), Null, loop_counts)
        ELSE IF passed.raised
        THEN Outcome(TRUE, Err("unsupported_operator", op), Null, loop_counts)
        ELSE Outcome(FALSE, NoErr,
                     IF passed.result THEN on_true ELSE Or(on_false, node.next),
                     loop_counts)

DefaultMaxIterations == 25

\* _evaluate_loop with the guard `count > max_iterations`
evaluate_loop_OffByOne(node, state, loop_counts) ==
    LET key == Get(node.config, "key", Null)
        op == Get(node.config, "op", "==")
        target == Get(node.config, "value", NoneV)
        body == Get(node.config, "body", Null)
        after == Get(node.config, "after", Null)
        max_iterations == Get(node.config, "max_iterations", DefaultMaxIterations)
        count == Get(loop_counts, node.name, 0)
        value == Get(state, key, NoneV)
        continue_loop == compare(value, op, target)
    IN  IF key = Null \/ body = Null
        THEN Outcome(TRUE, Err("missing_key_or_body", node.name), Null, loop_counts)
        ELSE IF continue_loop.raised
        THEN Outcome(TRUE, Err("unsupported_operator", op), Null, loop_counts)
        ELSE IF continue_loop.result /\ count > max_iterations
        THEN Outcome(FALSE, NoErr, after, loop_counts)
        ELSE IF continue_loop.result
        THEN Outcome(FALSE, NoErr, body,
                     Update(loop_counts, Map1(node.name, count + 1)))
        ELSE Outcome(FALSE, NoErr, Or(after, node.next), loop_counts)

\* _evaluate_loop without `run_state.loop_counts[node.name] = count + 1`
evaluate_loop_NoCount(node, state, loop_counts) ==
    LET key == Get(node.config, "key", Null)
        op == Get(node.config, "op", "==")
        target == Get(node.config, "value", NoneV)
        body == Get(node.config, "body", Null)
        after == Get(node.config, "after", Null)
        max_iterations == Get(node.config, "max_iterations", DefaultMaxIterations)
        count == Get(loop_counts, node.name, 0)
        value == Get(state, key, NoneV)
        continue_loop == compare(value, op, target)
    IN  IF key = Null \/ body = Null
        THEN Outcome(TRUE, Err("missing_key_or_body", node.name), Null, loop_counts)
        ELSE IF continue_loop.raised
        THEN Outcome(TRUE, Err("unsupported_operator", op), Null, loop_counts)
        ELSE IF continue_loop.result /\ count >= max_iterations
        THEN Outcome(FALSE, NoErr, after, loop_counts)
        ELSE IF continue_loop.result
        THEN Outcome(FALSE, NoErr, body, loop_counts)
        ELSE Outcome(FALSE, NoErr, Or(after, node.next), loop_counts)

\* _evaluate_loop setting the stored count back to 0 when the loop is left
evaluate_loop_ResetOnExit(node, state, loop_counts) ==
    LET key == Get(node.config, "key", Null)
        op == Get(node.config, "op", "==")
        target == Get(node.config, "value", NoneV)
        body == Get(node.config, "body", Null)
        after == Get(node.config, "after", Null)
        max_iterations == Get(node.config, "max_iterations", DefaultMaxIterations)
        count == Get(loop_counts, node.name, 0)
        value == Get(state, key, NoneV)
        continue_loop == compare(value, op, target)
    IN  IF key = Null \/ body = Null
        THEN Outcome(TRUE, Err("missing_key_or_body", node.name), Null, loop_counts)
        ELSE IF continue_loop.raised
        THEN Outcome(TRUE, Err("unsupported_operator", op), Null, loop_counts)
        ELSE IF continue_loop.result /\ count >= max_iterations
        THEN Outcome(FALSE, NoErr, after, Update(loop_counts, Map1(node.name, 0)))
        ELSE IF continue_loop.result
        THEN Outcome(FALSE, NoErr, body,
                     Update(loop_counts, Map1(node.name, count + 1)))
        ELSE Outcome(FALSE, NoErr, Or(after, node.next), loop_counts)

\* _evaluate_loop storing the count under the name of the body,
\* `run_state.loop_counts[body] = count + 1`
evaluate_loop_CountsBody(node, state, loop_counts) ==
    LET key == Get(node.config, "key", Null)
        op == Get(node.config, "op", "==")
        target == Get(node.config, "value", NoneV)
        body == Get(node.config, "body", Null)
        after == Get(node.config, "after", Null)
        max_iterations == Get(node.config, "max_iterations", DefaultMaxIterations)
        count == Get(loop_counts, node.name, 0)
        value == Get(state, key, NoneV)
        continue_loop == compare(value, op, target)
    IN  IF key = Null \/ body = Null
        THEN Outcome(TRUE, Err("missing_key_or_body", node.name), Null, loop_counts)
        ELSE IF continue_loop.raised
        THEN Outcome(TRUE, Err("unsupported_operator", op), Null, loop_counts)
        ELSE IF continue_loop.result /\ count >= max_iterations
        THEN Outcome(FALSE, NoErr, after, loop_counts)
        ELSE IF continue_loop.result
        THEN Outcome(FALSE, NoErr, body,
                     Update(loop_counts, Map1(body, count + 1)))
        ELSE Outcome(FALSE, NoErr, Or(after, node.next), loop_counts)

\* WorkflowEngine._evaluate_loop
evaluate_loop(node, state, loop_counts) ==
    LET key == Get(node.config, "key", Null)
        op == Get(node.config, "op", "==")
        target == Get(node.config, "value", NoneV)
        body == Get(node.config, "body", Null)
        after == Get(node.config, "after", Null)
        max_iterations == Get(node.config, "max_iterations", DefaultMaxIterations)
        count == Get(loop_counts, node.name, 0)
        value == Get(state, key, NoneV)
        continue_loop == compare(value, op, target)
    IN  IF key = Null \/ body = Null
        THEN Outcome(TRUE, Err("missing_key_or_body", node.name), Null, loop_counts)
        ELSE IF continue_loop.raised
        THEN Outcome(TRUE, Err("unsupported_operator", op), Null, loop_counts)
        ELSE IF continue_loop.result /\ count >= max_iterations
        THEN Outcome(FALSE, NoErr, after, loop_counts)
        ELSE IF continue_loop.result
        THEN Outcome(FALSE, NoErr, body,
                     Update(loop_counts, Map1(node.name, count + 1)))
        ELSE Outcome(FALSE, NoErr, Or(after, node.next), loop_counts)

(***************************************************************************)
(* Run records, log entries and events                                     *)
(***************************************************************************)
QueueMaxSize == 100

\* RunState(run_id, graph_id, state=dict(initial_state or {}), current_node=graph.start_at)
RunState(run_id, graph_id, state, current_node) ==
    [run_id |-> run_id, graph_id |-> graph_id, state |-> state,
     current_node |-> current_node, status |-> "pending", log |-> <<>>,
     loop_counts |-> EmptyMap, subscribers |-> <<>>, objects |-> Objects(state)]

\* LogEntry(node, status, detail, state_snapshot=dict(run_state.state))
LogEntry(node, status, detail, state) ==
    [node |-> node, status |-> status, detail |-> detail, state_snapshot |-> state]

\* The messages of _execute.  node_start, node_end and run_completed also carry
\* "state": a reference to the live run_state.state, which holds no value of its
\* own; run_id is 0 and node is Null where the message has no such field.
Message(event, run_id, node, error) ==
    [event |-> event, run_id |-> run_id, node |-> node, error |-> error]

NoNode == [name |-> Null, type |-> "tool", next |-> Null, config |-> EmptyMap]

\* the frame of _execute before its first step
NewTask(graph) ==
    [pc |-> "created", graph |-> graph, current |-> Null, node |-> NoNode, exc |-> NoErr,
     nsent |-> 0]

Terminal == {"completed", "failed"}

\* node_lookup = {node.name: node for node in graph.nodes}: the last node of a name
node_lookup(graph, name) ==
    graph.nodes[CHOOSE i \in 1..Len(graph.nodes) :
                    /\ graph.nodes[i].name = name
                    /\ \A j \in 1..Len(graph.nodes) : graph.nodes[j].name = name => j <= i]

SeqToSet(s) == {s[i] : i \in 1..Len(s)}

\* _notify_subscribers leaving its loop at the first full queue
notify_subscribers_StopsAtFull(qs, subscribers, message) ==
    [h \in DOMAIN qs |->
        IF /\ h \in SeqToSet(subscribers)
           /\ \A i \in 1..Len(subscribers) :
                 (\E j \in 1..Len(subscribers) : subscribers[j] = h /\ i <= j)
                 => Len(qs[subscribers[i]]) < QueueMaxSize
        THEN Append(qs[h], message)
        ELSE qs[h]]

\* WorkflowEngine._notify_subscribers: put_nowait on every subscribed queue,
\* QueueFull swallowed
notify_subscribers(qs, subscribers, message) ==
    [h \in DOMAIN qs |->
        IF h \in SeqToSet(subscribers) /\ Len(qs[h]) < QueueMaxSize
        THEN Append(qs[h], message)
        ELSE qs[h]]

RECURSIVE NotifyAll(_, _, _)
NotifyAll(qs, subscribers, messages) ==
    IF messages = <<>>
    THEN qs
    ELSE NotifyAll(notify_subscribers(qs, subscribers, Head(messages)),
                   subscribers, Tail(messages))

\* a run publishes at most three messages more than it logs entries
MaxPublished == MaxLog + 3

\* Commit with one state bag for the engine instead of one for each RunState
Commit_SharedState(r, run, task, messages, holder) ==
    /\ runs' = [q \in DOMAIN runs |->
                    IF q = r THEN run
                    ELSE [runs[q] EXCEPT !.state = run.state, !.objects = run.objects]]
    /\ tasks' = [tasks EXCEPT ![r] = [task EXCEPT !.nsent = Len(messages)]]
    /\ published' = [published EXCEPT ![r] = RecordAll(@, messages, MaxPublished)]
    /\ queues' = NotifyAll(queues, runs[r].subscribers, messages)
    /\ active' = holder
    /\ UNCHANGED <<graphs, handlers, callers>>

\* Commit with one loop_counts for the engine instead of one for each RunState
Commit_SharedCounts(r, run, task, messages, holder) ==
    /\ runs' = [q \in DOMAIN runs |->
                    IF q = r THEN run
                    ELSE [runs[q] EXCEPT !.loop_counts = run.loop_counts]]
    /\ tasks' = [tasks EXCEPT ![r] = [task EXCEPT !.nsent = Len(messages)]]
    /\ published' = [published EXCEPT ![r] = RecordAll(@, messages, MaxPublished)]
    /\ queues' = NotifyAll(queues, runs[r].subscribers, messages)
    /\ active' = holder
    /\ UNCHANGED <<graphs, handlers, callers>>

\* the step of run r's task: the new record, the new frame, the messages it
\* published, and who holds the event loop afterwards
Commit(r, run, task, messages, holder) ==
    /\ runs' = [runs EXCEPT ![r] = run]
    /\ tasks' = [tasks EXCEPT ![r] = [task EXCEPT !.nsent = Len(messages)]]
    /\ published' = [published EXCEPT ![r] = RecordAll(@, messages, MaxPublished)]
    /\ queues' = NotifyAll(queues, runs[r].subscribers, messages)
    /\ active' = holder
    /\ UNCHANGED <<graphs, handlers, callers>>

\* the except branch without its `raise`: the task ends normally
Failed_NoRaise(r, run, task, messages, exc) ==
    Commit(r,
           [run EXCEPT !.status = "failed",
                       !.log = Record(run.log,
                                      LogEntry(Or(task.current, "unknown"), "error", exc, run.state),
                                      MaxLog),
                       !.current_node = Null],
           [task EXCEPT !.pc = "done"],
           messages \o <<Message("run_failed", r, Null, exc)>>,
           0)

\* the except branch attributing the error entry to "unknown" whatever `current` is
Failed_LogsUnknown(r, run, task, messages, exc) ==
    Commit(r,
           [run EXCEPT !.status = "failed",
                       !.log = Record(run.log, LogEntry("unknown", "error", exc, run.state),
                                      MaxLog),
                       !.current_node = Null],
           [task EXCEPT !.pc = "done", !.exc = exc],
           messages \o <<Message("run_failed", r, Null, exc)>>,
           0)

\* the except branch of _execute, entered with exc while dispatching `current`
Failed(r, run, task, messages, exc) ==
    Commit(r,
           [run EXCEPT !.status = "failed",
                       !.log = Record(run.log,
                                      LogEntry(Or(task.current, "unknown"), "error", exc, run.state),
                                      MaxLog),
                       !.current_node = Null],
           [task EXCEPT !.pc = "done", !.exc = exc],
           messages \o <<Message("run_failed", r, Null, exc)>>,
           0)

\* NodeEnd naming the reassigned `current` in node_end instead of node.name
NodeEnd_NamesNext(r, run, task, node, messages, next) ==
    Commit(r,
           [run EXCEPT !.log = Record(run.log, LogEntry(node.name, "end", NoErr, run.state),
                                      MaxLog)],
           [task EXCEPT !.pc = "loop", !.current = next, !.node = NoNode],
           messages \o <<Message("node_end", 0, next, NoErr)>>,
           r)

\* NodeEnd giving up the event loop after node_end, as a publication that awaited
\* room in a queue would
NodeEnd_Yields(r, run, task, node, messages, next) ==
    Commit(r,
           [run EXCEPT !.log = Record(run.log, LogEntry(node.name, "end", NoErr, run.state),
                                      MaxLog)],
           [task EXCEPT !.pc = "loop", !.current = next, !.node = NoNode],
           messages \o <<Message("node_end", 0, node.name, NoErr)>>,
           0)

\* the rest of a loop iteration once _execute_node has returned `next`
NodeEnd(r, run, task, node, messages, next) ==
    Commit(r,
           [run EXCEPT !.log = Record(run.log, LogEntry(node.name, "end", NoErr, run.state),
                                      MaxLog)],
           [task EXCEPT !.pc = "loop", !.current = next, !.node = NoNode],
           messages \o <<Message("node_end", 0, node.name, NoErr)>>,
           r)

(***************************************************************************)
(* WorkflowEngine._execute, one action per stretch between two points      *)
(* where the loop `while current` is tested or the task is suspended       *)
(***************************************************************************)
\* the entries of one more visit fit in the part of the log the model keeps
Room(r) == r \in 1..Len(runs) /\ Len(runs[r].log) + 2 <= MaxLog

\* Begin without `run_state.status = RunStatus.running`
Begin_StaysPending(r) ==
    /\ active = 0
    /\ r \in 1..Len(runs)
    /\ tasks[r].pc = "created"
    /\ Commit(r,
              runs[r],
              [tasks[r] EXCEPT !.pc = "loop", !.current = tasks[r].graph.start_at],
              <<Message("run_started", r, Null, NoErr)>>,
              r)

\* the task is scheduled for the first time
Begin(r) ==
    /\ active = 0
    /\ r \in 1..Len(runs)
    /\ tasks[r].pc = "created"
    /\ Commit(r,
              [runs[r] EXCEPT !.status = "running"],
              [tasks[r] EXCEPT !.pc = "loop", !.current = tasks[r].graph.start_at],
              <<Message("run_started", r, Null, NoErr)>>,
              r)

\* one iteration of the loop, up to the tool await or to the end of the iteration
Visit(r) ==
    /\ active = r
    /\ tasks[r].pc = "loop"
    /\ Truthy(tasks[r].current)
    /\ LET task == tasks[r]
           current == task.current
           run == [runs[r] EXCEPT
                      !.current_node = current,
                      !.log = Record(runs[r].log,
                                     LogEntry(current, "start", NoErr, runs[r].state), MaxLog)]
           messages == <<Message("node_start", 0, current, NoErr)>>
       IN  IF current \notin NodeNames(task.graph)
           THEN Failed(r, run, task, messages, Err("key_error", current))
           ELSE LET node == node_lookup(task.graph, current)
                    tool_name == Get(node.config, "tool", Null)
                    out == IF node.type = "conditional"
                           THEN evaluate_conditional(node, run.state, run.loop_counts)
                           ELSE evaluate_loop(node, run.state, run.loop_counts)
                IN  IF node.type = "tool"
                    THEN IF ~Truthy(tool_name)
                         THEN Failed(r, run, task, messages, Err("missing_tool", node.name))
                         ELSE IF ~ToolsGet(tool_name)
                         THEN Failed(r, run, task, messages, Err("tool_not_registered", tool_name))
                         ELSE Commit(r, run, [task EXCEPT !.pc = "tool", !.node = node],
                                     messages, 0)
                    ELSE IF out.raised
                    THEN Failed(r, run, task, messages, out.err)
                    ELSE NodeEnd(r, [run EXCEPT !.loop_counts = out.loop_counts],
                                 task, node, messages, out.next)

\* ToolDone with `run_state.state = result` for `run_state.state.update(result)`
ToolDone_ReplacesState(r) ==
    /\ active = 0
    /\ r \in 1..Len(runs)
    /\ tasks[r].pc = "tool"
    /\ LET task == tasks[r]
           node == task.node
           result == ToolsInvoke(node.config["tool"], runs[r].state)
           written == Update(runs[r].state, ToolWrites(node.config["tool"], runs[r].state))
       IN  IF result.raised
           THEN Failed(r, runs[r], task, <<>>, result.err)
           ELSE NodeEnd(r,
                        [runs[r] EXCEPT !.state = IF result.ret # EmptyMap
                                                  THEN result.ret
                                                  ELSE written,
                                        !.objects = ToolObjects(node.config["tool"],
                                                                runs[r].state, @)],
                        task, node, <<>>, node.next)

\* the tool has returned or raised and the task is scheduled again
ToolDone(r) ==
    /\ active = 0
    /\ r \in 1..Len(runs)
    /\ tasks[r].pc = "tool"
    /\ LET task == tasks[r]
           node == task.node
           result == ToolsInvoke(node.config["tool"], runs[r].state)
           written == Update(runs[r].state, ToolWrites(node.config["tool"], runs[r].state))
       IN  IF result.raised
           THEN Failed(r, runs[r], task, <<>>, result.err)
           ELSE NodeEnd(r,
                        [runs[r] EXCEPT !.state = IF result.ret # EmptyMap
                                                  THEN Update(written, result.ret)
                                                  ELSE written,
                                        !.objects = ToolObjects(node.config["tool"],
                                                                runs[r].state, @)],
                        task, node, <<>>, node.next)

\* `while current` is false: the run completes
Finish(r) ==
    /\ active = r
    /\ tasks[r].pc = "loop"
    /\ ~Truthy(tasks[r].current)
    /\ Commit(r,
              [runs[r] EXCEPT !.current_node = Null, !.status = "completed"],
              [tasks[r] EXCEPT !.pc = "done"],
              <<Message("run_completed", r, Null, NoErr)>>,
              0)

(***************************************************************************)
(* app/routes/graphs.py: create_graph                                      *)
(***************************************************************************)
\* GraphDefinition(**payload) validates; register_graph stores under graph_id
CreateGraph(raw) ==
    /\ active = 0
    /\ graphs' = IF validate_graph(raw) = NoErr
                 THEN Update(graphs, Map1(raw.graph_id, raw))
                 ELSE graphs
    /\ UNCHANGED <<runs, tasks, published, queues, handlers, callers, active>>

(***************************************************************************)
(* Callers of WorkflowEngine.run_graph and wait_for_run                    *)
(***************************************************************************)
Callers == 1..MaxCallers
\* the connections of Spec, and one more for the specification of long runs
Handlers == 1..MaxHandlers
Connections == 1..(MaxHandlers + 1)

IdleCaller == [pc |-> "idle", op |-> "none", run_id |-> 0, exc |-> NoErr, seen |-> "none"]

TaskDone(r) == tasks[r].pc = "done"

\* callers are numbered in the order of their calls
FreeCaller(c) == callers[c].pc = "idle" /\ \A d \in 1..(c - 1) : callers[d].pc # "idle"

\* what `await task` gives a caller once the task is done: its exception re-raised,
\* or the return of the call (run_graph: the run id; wait_for_run: the RunState,
\* whose status at that moment is recorded in `seen`)
Resumed(caller, r) ==
    IF tasks[r].exc # NoErr
    THEN [caller EXCEPT !.pc = "raised", !.exc = tasks[r].exc]
    ELSE [caller EXCEPT !.pc = "returned", !.seen = runs[r].status]

\* WorkflowEngine.run_graph up to `await task` or `return run_id`
RunGraph(c, graph_id, initial_state, wait_for_completion) ==
    /\ active = 0
    /\ FreeCaller(c)
    /\ IF graph_id \notin DOMAIN graphs
       THEN /\ callers' = [callers EXCEPT ![c] =
                    [@ EXCEPT !.pc = "raised", !.op = "run_graph",
                              !.exc = Err("unknown_graph_id", graph_id)]]
            /\ UNCHANGED <<runs, tasks, published>>
       ELSE /\ Len(runs) < MaxRuns
            /\ LET run_id == Len(runs) + 1
               IN  /\ runs' = Append(runs, RunState(run_id, graph_id, initial_state,
                                                    graphs[graph_id].start_at))
                   /\ tasks' = Append(tasks, NewTask(graphs[graph_id]))
                   /\ published' = Append(published, <<>>)
                   /\ callers' = [callers EXCEPT ![c] =
                          IF wait_for_completion
                          THEN [@ EXCEPT !.pc = "awaiting", !.op = "run_graph", !.run_id = run_id]
                          ELSE [@ EXCEPT !.pc = "returned", !.op = "run_graph_nowait",
                                         !.run_id = run_id]]
    /\ UNCHANGED <<graphs, queues, handlers, active>>

\* wait_for_run without its await: the record is returned as it is
WaitForRun_NoAwait(c, run_id) ==
    /\ active = 0
    /\ FreeCaller(c)
    /\ callers' = [callers EXCEPT ![c] =
          IF run_id \notin 1..Len(runs)
          THEN [@ EXCEPT !.pc = "raised", !.op = "wait_for_run",
                         !.exc = Err("unknown_run_id", Null)]
          ELSE [@ EXCEPT !.pc = "returned", !.op = "wait_for_run", !.run_id = run_id,
                         !.seen = runs[run_id].status]]
    /\ UNCHANGED <<graphs, runs, tasks, published, queues, handlers, active>>

\* WorkflowEngine.wait_for_run up to `await asyncio.shield(run_state.task)`; a done
\* task does not suspend the caller
WaitForRun(c, run_id) ==
    /\ active = 0
    /\ FreeCaller(c)
    /\ callers' = [callers EXCEPT ![c] =
          IF run_id \notin 1..Len(runs)
          THEN [@ EXCEPT !.pc = "raised", !.op = "wait_for_run",
                         !.exc = Err("unknown_run_id", Null)]
          ELSE IF TaskDone(run_id)
          THEN Resumed([@ EXCEPT !.op = "wait_for_run", !.run_id = run_id], run_id)
          ELSE [@ EXCEPT !.pc = "awaiting", !.op = "wait_for_run", !.run_id = run_id]]
    /\ UNCHANGED <<graphs, runs, tasks, published, queues, handlers, active>>

\* a suspended caller is woken by the completion of the task it awaits
Resume(c) ==
    /\ active = 0
    /\ callers[c].pc = "awaiting"
    /\ TaskDone(callers[c].run_id)
    /\ callers' = [callers EXCEPT ![c] = Resumed(@, callers[c].run_id)]
    /\ UNCHANGED <<graphs, runs, tasks, published, queues, handlers, active>>

\* WorkflowEngine.get_run: a RunResponse over the live fields of the run
get_run(run_id) ==
    [run_id |-> runs[run_id].run_id, graph_id |-> runs[run_id].graph_id,
     status |-> runs[run_id].status, state |-> runs[run_id].state,
     log |-> runs[run_id].log]

\* app/routes/execution.py get_run_state: a read
GetRunState(run_id) ==
    /\ active = 0
    /\ run_id \in 1..Len(runs)
    /\ get_run(run_id).run_id = run_id
    /\ UNCHANGED vars

(***************************************************************************)
(* app/routes/websocket.py: websocket_run_logs, with WorkflowEngine        *)
(* subscribe and unsubscribe                                               *)
(***************************************************************************)
IdleHandler == [pc |-> "idle", run_id |-> 0, connected |-> "none", log_count |-> 0,
                last_sent |-> "none"]

\* connections are numbered in the order they are accepted
FreeHandler(h) == handlers[h].pc = "idle" /\ \A d \in 1..(h - 1) : handlers[d].pc # "idle"

\* subscribe registering the queue only while the run is not terminal
subscribe_RefusesTerminal(rs, run_id, h) ==
    IF rs[run_id].status \in Terminal
    THEN rs
    ELSE [rs EXCEPT ![run_id].subscribers = Append(@, h)]

\* WorkflowEngine.subscribe: a new queue appended to the run's subscribers
subscribe(rs, run_id, h) ==
    [rs EXCEPT ![run_id].subscribers = Append(@, h)]

\* WorkflowEngine.unsubscribe: list.remove if present
unsubscribe(rs, run_id, h) ==
    IF run_id \in 1..Len(rs) /\ h \in SeqToSet(rs[run_id].subscribers)
    THEN [rs EXCEPT ![run_id].subscribers = SelectSeq(@, LAMBDA q : q # h)]
    ELSE rs

\* accept, subscribe, and the "connected" message built from get_run
WsConnect(h, run_id) ==
    /\ active = 0
    /\ FreeHandler(h)
    /\ IF run_id \notin 1..Len(runs)
       THEN /\ handlers' = [handlers EXCEPT ![h] =
                    [@ EXCEPT !.pc = "closed", !.run_id = run_id, !.last_sent = "error"]]
            /\ UNCHANGED <<runs, queues>>
       ELSE /\ runs' = subscribe(runs, run_id, h)
            /\ queues' = [queues EXCEPT ![h] = <<>>]
            /\ handlers' = [handlers EXCEPT ![h] =
                    [@ EXCEPT !.pc = "streaming", !.run_id = run_id,
                              !.connected = get_run(run_id).status,
                              !.log_count = Len(get_run(run_id).log),
                              !.last_sent = "connected"]]
    /\ UNCHANGED <<graphs, tasks, published, callers, active>>

\* queue.get() returns a message, it is sent on, and a final event ends the stream
WsReceive(h) ==
    /\ active = 0
    /\ handlers[h].pc = "streaming"
    /\ queues[h] # <<>>
    /\ LET message == Head(queues[h])
           final == message.event \in {"run_completed", "run_failed"}
       IN  /\ queues' = [queues EXCEPT ![h] = Tail(@)]
           /\ handlers' = [handlers EXCEPT ![h] =
                   [@ EXCEPT !.pc = IF final THEN "closed" ELSE "streaming",
                             !.last_sent = message.event]]
           /\ runs' = IF final THEN unsubscribe(runs, handlers[h].run_id, h) ELSE runs
    /\ UNCHANGED <<graphs, tasks, published, callers, active>>

\* 30 s without a message: heartbeat, then get_run decides whether to stop
WsTimeout(h) ==
    /\ active = 0
    /\ handlers[h].pc = "streaming"
    /\ queues[h] = <<>>
    /\ LET status == get_run(handlers[h].run_id).status
           final == status \in Terminal
       IN  /\ handlers' = [handlers EXCEPT ![h] =
                   [@ EXCEPT !.pc = IF final THEN "closed" ELSE "streaming",
                             !.last_sent = IF final
                                           THEN (IF status = "completed" THEN "run_completed"
                                                                         ELSE "run_failed")
                                           ELSE "heartbeat"]]
           /\ runs' = IF final THEN unsubscribe(runs, handlers[h].run_id, h) ELSE runs
    /\ UNCHANGED <<graphs, tasks, published, queues, callers, active>>

\* WebSocketDisconnect: the finally clause unsubscribes
WsDisconnect(h) ==
    /\ active = 0
    /\ handlers[h].pc = "streaming"
    /\ handlers' = [handlers EXCEPT ![h] = [@ EXCEPT !.pc = "closed"]]
    /\ runs' = unsubscribe(runs, handlers[h].run_id, h)
    /\ UNCHANGED <<graphs, tasks, published, queues, callers, active>>

(***************************************************************************)
(* The definitions submitted to create_graph and the initial states of     *)
(* the runs                                                                *)
(***************************************************************************)
Node(name, type, next, config) ==
    [name |-> name, type |-> type, next |-> next, config |-> config]

Graph(graph_id, start_at, nodes) ==
    [graph_id |-> graph_id, start_at |-> start_at, nodes |-> nodes]

ToolNode(name, tool, next) == Node(name, "tool", next, [tool |-> tool])

\* A --(tool double)--> B --(x >= 10 ? end : A)
GDouble ==
    Graph("g", "A",
          <<ToolNode("A", "double", "B"),
            Node("B", "conditional", Null,
                 [key |-> "x", op |-> ">=", value |-> IntV(10),
                  on_true |-> Null, on_false |-> "A"])>>)

\* L loops over the body T while x < 10, at most twice
GLoop ==
    Graph("g", "L",
          <<Node("L", "loop", Null,
                 [key |-> "x", op |-> "<", value |-> IntV(10),
                  body |-> "T", max_iterations |-> 2]),
            ToolNode("T", "noop", "L")>>)

\* one node each, failing in dispatch
GGhost == Graph("g", "N", <<ToolNode("N", "ghost", Null)>>)
GBoom == Graph("g", "N", <<ToolNode("N", "boom", Null)>>)
\* A --(tool double)--> B --(tool ghost, not registered)
GThenGhost == Graph("g", "A", <<ToolNode("A", "double", "B"), ToolNode("B", "ghost", Null)>>)
GNoTool == Graph("g", "N", <<Node("N", "tool", Null, EmptyMap)>>)
GNoKey == Graph("g", "N", <<Node("N", "conditional", Null, [value |-> IntV(3)])>>)
GBadOp == Graph("g", "N", <<Node("N", "conditional", Null,
                                 [key |-> "x", op |-> "~", value |-> IntV(3)])>>)
GNoBody == Graph("g", "N", <<Node("N", "loop", Null, [key |-> "x"])>>)

\* two nodes of one name; a reference to a node that does not exist; no such start
GDuplicate == Graph("g", "N", <<ToolNode("N", "noop", Null), ToolNode("N", "boom", Null)>>)
GDangling == Graph("h", "N", <<ToolNode("N", "noop", "Z")>>)
GNoStart == Graph("g", "Z", <<ToolNode("N", "noop", Null)>>)
\* one node, named by the empty string, where the run starts
GEmptyName == Graph("g", "", <<ToolNode("", "noop", Null)>>)

Catalog == {GDouble, GBoom, GDangling}

GraphIds == {"g", "h"}

InitialStates == {Map1("x", IntV(3))}

(***************************************************************************)
(* The engine with its callers                                             *)
(***************************************************************************)
Init ==
    /\ graphs = EmptyMap
    /\ runs = <<>>
    /\ tasks = <<>>
    /\ published = <<>>
    /\ queues = [h \in Connections |-> <<>>]
    /\ handlers = [h \in Connections |-> IdleHandler]
    /\ callers = [c \in Callers |-> IdleCaller]
    /\ active = 0

RunIds == 1..MaxRuns

Next ==
    \/ \E raw \in Catalog : CreateGraph(raw)
    \/ \E c \in Callers, g \in GraphIds, s \in InitialStates, w \in BOOLEAN :
            RunGraph(c, g, s, w)
    \/ \E c \in Callers, r \in RunIds : WaitForRun(c, r)
    \/ \E c \in Callers : Resume(c)
    \/ \E r \in RunIds : GetRunState(r)
    \/ \E r \in RunIds : Begin(r)
    \/ \E r \in RunIds : Room(r) /\ Visit(r)
    \/ \E r \in RunIds : ToolDone(r)
    \/ \E r \in RunIds : Finish(r)
    \/ \E h \in Handlers, r \in RunIds : WsConnect(h, r)
    \/ \E h \in Handlers : WsReceive(h)
    \/ \E h \in Handlers : WsTimeout(h)
    \/ \E h \in Handlers : WsDisconnect(h)

Spec == Init /\ [][Next]_vars

(***************************************************************************)
(* Every definition of a small family, submitted before one run is started *)
(* by one caller: validation, dispatch and its failures                    *)
(***************************************************************************)
GenNames == {"A", "B"}
GenRefs == {Null, "A", "B", "Z"}

GenToolNodes(names) == {ToolNode(n, "noop", next) : n \in names, next \in GenRefs}

\* the first node is named A and is of any type; a second node is a tool node
GenFirstNodes ==
    GenToolNodes({"A"})
    \cup {Node("A", "conditional", Null,
               [key |-> "x", op |-> ">=", value |-> IntV(10), on_true |-> t, on_false |-> f]) :
            t \in GenRefs, f \in GenRefs}
    \cup {Node("A", "loop", Null,
               [key |-> "x", op |-> "<", value |-> IntV(10), body |-> b, after |-> a,
                max_iterations |-> 1]) :
            b \in GenRefs \ {Null}, a \in GenRefs}

GenGraphs ==
    {Graph("g", start, <<n1>>) : start \in GenRefs \ {Null}, n1 \in GenFirstNodes}
    \cup {Graph("g", start, <<n1, n2>>) :
            start \in GenRefs \ {Null}, n1 \in GenFirstNodes, n2 \in GenToolNodes(GenNames)}

Submitted == GenGraphs \cup {GDouble, GLoop, GGhost, GBoom, GThenGhost, GNoTool, GNoKey,
                             GBadOp, GNoBody, GDuplicate, GDangling, GNoStart, GEmptyName}

SubmittedStates == {EmptyMap, Map1("x", IntV(3)), Map1("x", IntV(12))}

NextGraphs ==
    \/ \E raw \in Submitted : runs = <<>> /\ CreateGraph(raw)
    \/ \E g \in GraphIds, s \in SubmittedStates, w \in BOOLEAN : RunGraph(1, g, s, w)
    \/ WaitForRun(2, 1)
    \/ \E c \in {1, 2} : Resume(c)
    \/ Begin(1)
    \/ Room(1) /\ Visit(1)
    \/ ToolDone(1)
    \/ Finish(1)

SpecGraphs == Init /\ [][NextGraphs]_vars

(***************************************************************************)
(* A run of more than QueueMaxSize events, observed by two connections     *)
(***************************************************************************)
\* T --(tool noop)--> L; L loops over the body C while x == 1, with the default
\* max_iterations and the default operator; C sends the run back to L; after the
\* loop, E --(tool noop)--> end
GLong ==
    Graph("g", "T",
          <<ToolNode("T", "noop", "L"),
            Node("L", "loop", Null,
                 [key |-> "x", value |-> IntV(1), body |-> "C", after |-> "E"]),
            Node("C", "conditional", Null, [key |-> "x", value |-> IntV(1), on_true |-> "L"]),
            ToolNode("E", "noop", Null)>>)

LongStates == {Map1("x", IntV(1))}

NextLong ==
    \/ \E raw \in {GLong, GLoop} : runs = <<>> /\ CreateGraph(raw)
    \/ \E s \in LongStates : RunGraph(1, "g", s, FALSE)
    \/ Begin(1)
    \/ Visit(1)
    \/ ToolDone(1)
    \/ Finish(1)
    \/ \E h \in Connections : WsConnect(h, 1)
    \/ \E h \in Connections : WsReceive(h)
    \/ \E h \in Connections : WsTimeout(h)

SpecLong == Init /\ [][NextLong]_vars

(***************************************************************************)
(* One run under the scheduling of the event loop: a task that is ready    *)
(* (created, or its tool has returned) is eventually run, and a task that  *)
(* holds the event loop goes on                                            *)
(***************************************************************************)
LiveStates == {Map1("x", IntV(0)), Map1("x", IntV(3)), Map1("x", IntV(12))}

Engine(r) == Begin(r) \/ Visit(r) \/ ToolDone(r) \/ Finish(r)

NextLive ==
    \/ \E raw \in {GDouble, GLoop, GBoom} : runs = <<>> /\ CreateGraph(raw)
    \/ \E s \in LiveStates, w \in BOOLEAN : RunGraph(1, "g", s, w)
    \/ Resume(1)
    \/ Begin(1)
    \/ Visit(1)
    \/ ToolDone(1)
    \/ Finish(1)

FairSpec == Init /\ [][NextLive]_vars /\ WF_vars(Engine(1))

(***************************************************************************)
(* One run of each graph of a family built around one node N of each type, *)
(* over every operator, target, successor and bound: the dispatch of a     *)
(* node as a function of the node and the state bag                        *)
(***************************************************************************)
\* an optional entry of a config
Opt(k, v) == IF v = Null THEN EmptyMap ELSE Map1(k, v)

NodeTargets == {NoneV, IntV(3), IntV(10)}
\* Null: the entry is left out of the config
NodeOperators == Operators \cup {Null}
\* the config of a loop with and without max_iterations
NodeBounds == {EmptyMap} \cup {Map1("max_iterations", m) : m \in 0..2}

ConditionalNodes ==
    {Node("N", "conditional", next,
          Update([key |-> "x", value |-> target, on_true |-> t, on_false |-> f], Opt("op", op))) :
        next \in {Null, "E"}, target \in NodeTargets, t \in {Null, "T"}, f \in {Null, "F"},
        op \in NodeOperators}

LoopNodes ==
    {Node("N", "loop", next,
          Update(Update([key |-> "x", value |-> target, body |-> "T", after |-> a],
                        Opt("op", op)),
                 m)) :
        next \in {Null, "E"}, target \in NodeTargets, a \in {Null, "F"},
        op \in NodeOperators, m \in NodeBounds}

ToolNodes ==
    {ToolNode("N", tool, next) : tool \in RegisteredTools, next \in {Null, "E"}}

\* N with its three possible successors; T, the body of a loop N, leads back to N
NodeGraphs ==
    {Graph("g", "N", <<n, ToolNode("T", "noop", IF n.type = "loop" THEN "N" ELSE Null),
                        ToolNode("F", "noop", Null), ToolNode("E", "noop", Null)>>) :
        n \in ConditionalNodes \cup LoopNodes \cup ToolNodes}

\* a loop N cut at one iteration whose `after` leads back to N through a tool that
\* changes x
GReenter ==
    Graph("g", "N",
          <<Node("N", "loop", Null,
                 [key |-> "x", op |-> "<", value |-> IntV(10), body |-> "T", after |-> "F",
                  max_iterations |-> 1]),
            ToolNode("T", "noop", "N"),
            ToolNode("F", "double", "N")>>)

NodeStates ==
    {EmptyMap, Map1("x", NoneV), Map1("x", IntV(3)), Map1("x", IntV(12)),
     [x |-> IntV(3), items |-> RefV(1)]}

NextNodes ==
    \/ \E raw \in NodeGraphs \cup {GReenter} : runs = <<>> /\ CreateGraph(raw)
    \/ \E s \in NodeStates : RunGraph(1, "g", s, FALSE)
    \/ Begin(1)
    \/ Room(1) /\ Visit(1)
    \/ ToolDone(1)
    \/ Finish(1)

SpecNodes == Init /\ [][NextNodes]_vars

(***************************************************************************)
(* Two runs at once, of the same or of different graphs, read and          *)
(* subscribed to while they run                                            *)
(***************************************************************************)
\* P --(tool push)--> Q --(tool push)--> end
GPush == Graph("g", "P", <<ToolNode("P", "push", "Q"), ToolNode("Q", "push", Null)>>)

PairStates == {Map1("x", IntV(3)), [x |-> IntV(6), items |-> RefV(1)]}

NextPair ==
    \/ \E raw \in {GDouble, GLoop, GPush} : CreateGraph(raw)
    \/ \E c \in Callers, s \in PairStates : RunGraph(c, "g", s, FALSE)
    \/ \E r \in RunIds : GetRunState(r)
    \/ \E r \in RunIds : Begin(r)
    \/ \E r \in RunIds : Room(r) /\ Visit(r)
    \/ \E r \in RunIds : ToolDone(r)
    \/ \E r \in RunIds : Finish(r)
    \/ \E r \in RunIds : WsConnect(1, r)
    \/ WsReceive(1)

SpecPair == Init /\ [][NextPair]_vars

(***************************************************************************)
(* Run lifecycle                                                           *)
(***************************************************************************)
Known(r) == r \in 1..Len(runs)

StatusMoves == {<<"pending", "running">>, <<"running", "completed">>, <<"running", "failed">>}

\* C1: a run's status only moves pending -> running -> completed | failed; it is
\* pending exactly until its task starts; once it is terminal no step of any task
\* changes status, state, log, current_node or loop_counts.
C1_StatusLifecycle ==
    [][\A r \in RunIds :
        /\ Known(r) =>
              /\ runs'[r].status # runs[r].status =>
                    <<runs[r].status, runs'[r].status>> \in StatusMoves
              /\ runs[r].status \in Terminal =>
                    /\ runs'[r].status = runs[r].status
                    /\ runs'[r].state = runs[r].state
                    /\ runs'[r].log = runs[r].log
                    /\ runs'[r].current_node = runs[r].current_node
                    /\ runs'[r].loop_counts = runs[r].loop_counts
        /\ r \in 1..Len(runs') =>
              /\ runs'[r].status = "pending" <=> tasks'[r].pc = "created"
              /\ ~Known(r) => runs'[r].status = "pending"
      ]_vars

\* a failed run that was subscribed to, read and awaited after it had failed
C1_Witness ==
    \E r \in RunIds, h \in Handlers, c \in Callers :
        /\ Known(r)
        /\ runs[r].status = "failed"
        /\ handlers[h].run_id = r
        /\ handlers[h].connected = "failed"
        /\ handlers[h].pc = "closed"
        /\ callers[c].op = "wait_for_run"
        /\ callers[c].run_id = r
        /\ callers[c].pc = "raised"

(***************************************************************************)
(* Order of the published events                                           *)
(***************************************************************************)
FinalEvents == {"run_completed", "run_failed"}

\* C2: the events of one run are published in execution order: run_started first
\* and once, each node_end right after the node_start of its visit, and exactly one
\* of run_completed / run_failed, which is the last event of the run.
C2_EventOrder ==
    \A r \in RunIds : Known(r) =>
        LET p == published[r]
        IN  /\ runs[r].status = "pending" <=> p = <<>>
            /\ \A i \in 1..Len(p) :
                  /\ p[i].event = "run_started" <=> i = 1
                  /\ p[i].event \in FinalEvents => i = Len(p)
                  /\ p[i].event = "node_end" =>
                        /\ i > 1
                        /\ p[i - 1].event = "node_start"
                        /\ p[i - 1].node = p[i].node
                  /\ p[i].event = "node_start" /\ i > 1 =>
                        p[i - 1].event \in {"run_started", "node_end"}
            /\ runs[r].status = "completed" <=> (p # <<>> /\ Last(p).event = "run_completed")
            /\ runs[r].status = "failed" <=> (p # <<>> /\ Last(p).event = "run_failed")

\* a completed run of four visits and a failed run
C2_Witness ==
    \E r, q \in RunIds :
        /\ Known(r) /\ Known(q)
        /\ runs[r].status = "completed"
        /\ Len(published[r]) = 10
        /\ runs[q].status = "failed"

(***************************************************************************)
(* Failure of a dispatch                                                   *)
(***************************************************************************)
\* the configurations of a node for which _execute_node raises before any await
DispatchRaises(node) ==
    \/ /\ node.type = "tool"
       /\ \/ ~Truthy(Get(node.config, "tool", Null))
          \/ Get(node.config, "tool", Null) \notin RegisteredTools
    \/ /\ node.type = "conditional"
       /\ \/ Get(node.config, "key", Null) = Null
          \/ Get(node.config, "op", "==") \notin Operators
    \/ /\ node.type = "loop"
       /\ \/ Get(node.config, "key", Null) = Null
          \/ Get(node.config, "body", Null) = Null
          \/ Get(node.config, "op", "==") \notin Operators

ErrorEntries(log) == {i \in 1..Len(log) : log[i].status = "error"}

\* what the claim says of run r after a failure while dispatching node n, the state
\* bag having been `state` and the log having had `before` entries
FailureRecorded(r, n, state, before) ==
    /\ runs'[r].status = "failed"
    /\ tasks'[r].pc = "done"
    /\ tasks'[r].exc # NoErr
    /\ Len(runs'[r].log) = before + 1
    /\ ErrorEntries(runs'[r].log) = {before + 1}
    /\ Last(runs'[r].log) = LogEntry(n, "error", tasks'[r].exc, state)
    /\ Last(published'[r]) = Message("run_failed", r, Null, tasks'[r].exc)

\* a caller that awaited run r has the failure of r re-raised, a caller that did
\* not wait has the run id
FailureSeen(c) ==
    /\ callers[c].op = "run_graph_nowait" =>
          callers[c].pc = "returned" /\ callers[c].exc = NoErr
    /\ /\ callers[c].op \in {"run_graph", "wait_for_run"}
       /\ callers[c].pc \in {"returned", "raised"}
       /\ callers[c].run_id # 0
       /\ runs[callers[c].run_id].status = "failed"
       => /\ callers[c].pc = "raised"
          /\ callers[c].exc = tasks[callers[c].run_id].exc
          /\ callers[c].exc # NoErr

\* C3: a failure raised while dispatching a node (missing config, unsupported
\* operator, unregistered tool, a tool that raises) makes the run failed, appends one
\* error entry naming that node with the message and the last-known state, publishes
\* run_failed with the error, is re-raised to a caller that waits and is never given
\* to a caller that did not wait.
C3_DispatchFailure ==
    /\ [](\A c \in Callers : FailureSeen(c))
    /\ [][\A r \in RunIds : Known(r) /\ tasks'[r] # tasks[r] =>
            /\ /\ tasks[r].pc = "loop"
               /\ Truthy(tasks[r].current)
               /\ DispatchRaises(node_lookup(tasks[r].graph, tasks[r].current))
               => FailureRecorded(r, tasks[r].current, runs[r].state, Len(runs[r].log) + 1)
            /\ /\ tasks[r].pc = "tool"
               /\ ToolFn(tasks[r].node.config["tool"], runs[r].state).raised
               => FailureRecorded(r, tasks[r].current, runs[r].state, Len(runs[r].log))
      ]_vars

\* the run of a node with an unregistered tool has failed and both waiters have
\* had the failure re-raised
C3_Witness ==
    /\ Known(1)
    /\ runs[1].status = "failed"
    /\ tasks[1].exc = Err("tool_not_registered", "ghost")
    /\ callers[1].op = "run_graph" /\ callers[1].pc = "raised"
    /\ callers[2].op = "wait_for_run" /\ callers[2].pc = "raised"

(***************************************************************************)
(* Loop bound                                                              *)
(***************************************************************************)
MaxIterations(node) == Get(node.config, "max_iterations", DefaultMaxIterations)

\* the loop condition of a loop node holds and its count has reached the bound
AtBound(node, state, loop_counts) ==
    /\ node.type = "loop"
    /\ Get(node.config, "key", Null) # Null
    /\ Get(node.config, "body", Null) # Null
    /\ LET c == compare(Get(state, node.config["key"], NoneV), Get(node.config, "op", "=="),
                        Get(node.config, "value", NoneV))
       IN  ~c.raised /\ c.result
    /\ Get(loop_counts, node.name, 0) >= MaxIterations(node)

\* C5: the stored iteration count of a loop node never exceeds its max_iterations
\* (25 when not configured); when the condition holds with the count at
\* max_iterations the node routes to `after` and the run is not failed by it.
C5_LoopBound ==
    /\ [](\A r \in RunIds : Known(r) =>
            \A n \in DOMAIN runs[r].loop_counts :
                /\ n \in NodeNames(tasks[r].graph)
                /\ node_lookup(tasks[r].graph, n).type = "loop"
                /\ runs[r].loop_counts[n] <= MaxIterations(node_lookup(tasks[r].graph, n)))
    /\ [][\A r \in RunIds :
            /\ Known(r)
            /\ tasks'[r] # tasks[r]
            /\ tasks[r].pc = "loop"
            /\ Truthy(tasks[r].current)
            /\ AtBound(node_lookup(tasks[r].graph, tasks[r].current), runs[r].state,
                       runs[r].loop_counts)
            => /\ tasks'[r].current =
                      Get(node_lookup(tasks[r].graph, tasks[r].current).config, "after", Null)
               /\ tasks'[r].pc = "loop"
               /\ runs'[r].status = "running"
               /\ runs'[r].loop_counts = runs[r].loop_counts
               /\ Last(runs'[r].log).status = "end"
      ]_vars

\* the loop of GLong has run its 25 default iterations and the run has completed
C5_Witness ==
    /\ Known(1)
    /\ tasks[1].graph = GLong
    /\ runs[1].status = "completed"
    /\ runs[1].loop_counts = Map1("L", DefaultMaxIterations)

(***************************************************************************)
(* Fan-out of the events                                                   *)
(***************************************************************************)
Min(a, b) == IF a <= b THEN a ELSE b

\* the messages run r published in its last step
LastPublished(r) ==
    SubSeq(published'[r], Len(published'[r]) - tasks'[r].nsent + 1, Len(published'[r]))

\* C6: a published event is put on every subscribed queue that has room and is
\* dropped for a queue that holds QueueMaxSize events, for that queue only; neither
\* changes what the step does to the run, which in this specification never fails.
C6_FanOut ==
    /\ [](\A r \in RunIds : Known(r) => runs[r].status # "failed")
    /\ [][\A r \in RunIds : Known(r) /\ tasks'[r] # tasks[r] =>
            \A h \in Connections :
                queues'[h] =
                    IF h \in SeqToSet(runs[r].subscribers)
                    THEN queues[h] \o SubSeq(LastPublished(r), 1,
                                             Min(tasks'[r].nsent, QueueMaxSize - Len(queues[h])))
                    ELSE queues[h]
      ]_vars

\* the first connection's queue is full and missed the final event, which the
\* second connection, having taken events off its queue, received
C6_Witness ==
    /\ Known(1)
    /\ runs[1].status = "completed"
    /\ Len(queues[1]) = QueueMaxSize
    /\ Last(queues[1]).event # "run_completed"
    /\ queues[2] # <<>>
    /\ Last(queues[2]).event = "run_completed"

(***************************************************************************)
(* Waiting for a run                                                       *)
(***************************************************************************)
\* the callers of wait_for_run on a registered run
Waiter(c) == callers[c].op = "wait_for_run" /\ callers[c].run_id # 0

\* C7 as amended: a waiter on a registered run is released only once the run is
\* terminal and can be resumed once it is and no task holds the event loop; a
\* waiter that calls on a terminal run does not suspend; a released waiter has the
\* record with status completed when the run completed and has the run's failure
\* re-raised when it failed; a step of wait_for_run changes no run, no task and
\* publishes nothing.
C7_AwaitRun ==
    /\ [](\A c \in Callers : Waiter(c) =>
            LET r == callers[c].run_id
            IN  /\ callers[c].pc \in {"awaiting", "returned", "raised"}
                /\ callers[c].pc \in {"returned", "raised"} =>
                      runs[r].status \in Terminal /\ TaskDone(r)
                /\ callers[c].pc = "returned" <=>
                      (runs[r].status = "completed" /\ callers[c].seen = "completed")
                /\ callers[c].pc = "raised" <=>
                      (runs[r].status = "failed" /\ callers[c].exc = tasks[r].exc
                                                 /\ callers[c].exc # NoErr)
                /\ callers[c].pc = "awaiting" /\ TaskDone(r) /\ active = 0 =>
                      ENABLED Resume(c))
    /\ [][\A c \in Callers :
            /\ callers'[c] # callers[c]
            /\ callers'[c].op = "wait_for_run"
            => /\ runs' = runs /\ tasks' = tasks /\ published' = published
               /\ queues' = queues /\ active' = active
               /\ /\ callers[c].pc = "idle"
                  /\ callers'[c].run_id # 0
                  => (callers'[c].pc = "awaiting" <=>
                          runs[callers'[c].run_id].status \notin Terminal)
      ]_vars

\* the caller that started the run and waited, and a caller of wait_for_run, have
\* both been released by the completed run
C7_Witness ==
    /\ Known(1)
    /\ runs[1].status = "completed"
    /\ callers[1].op = "run_graph" /\ callers[1].pc = "returned"
    /\ Waiter(2) /\ callers[2].run_id = 1 /\ callers[2].pc = "returned"
    /\ callers[2].seen = "completed"

\* C7 as stated: every released waiter on a registered run obtained the RunState
C7_EveryWaiterReturns ==
    \A c \in Callers :
        Waiter(c) /\ callers[c].pc \in {"returned", "raised"} => callers[c].pc = "returned"

(***************************************************************************)
(* Subscribing                                                             *)
(***************************************************************************)
\* C8: a connection for an unknown run is answered with an error and closed, and
\* subscribes nothing; for a known run, in any status, its queue is registered on
\* the run; when the run was already terminal the queue stays empty, the snapshot
\* of get_run reports that terminal status with the full log, and what the
\* connection is sent after "connected" is the final event of that status.
C8_Subscribe ==
    /\ [](\A h \in Handlers : handlers[h].pc # "idle" /\ Known(handlers[h].run_id) =>
            LET r == handlers[h].run_id
            IN  /\ handlers[h].pc = "streaming" => h \in SeqToSet(runs[r].subscribers)
                /\ handlers[h].connected \in Terminal =>
                      /\ queues[h] = <<>>
                      /\ get_run(r).status = handlers[h].connected
                      /\ Len(get_run(r).log) = handlers[h].log_count
                      /\ get_run(r).state = runs[r].state
                      /\ handlers[h].last_sent \in
                            {"connected",
                             IF handlers[h].connected = "completed" THEN "run_completed"
                                                                    ELSE "run_failed"})
    /\ [][\A h \in Handlers : handlers[h].pc = "idle" /\ handlers'[h].pc # "idle" =>
            LET r == handlers'[h].run_id
            IN  IF ~Known(r)
                THEN /\ handlers'[h].pc = "closed"
                     /\ handlers'[h].last_sent = "error"
                     /\ runs' = runs
                     /\ queues' = queues
                ELSE /\ handlers'[h].pc = "streaming"
                     /\ handlers'[h].last_sent = "connected"
                     /\ runs'[r].subscribers = Append(runs[r].subscribers, h)
                     /\ queues'[h] = <<>>
                     /\ handlers'[h].connected = runs[r].status
                     /\ handlers'[h].log_count = Len(runs[r].log)
      ]_vars

\* a connection made after the run had failed is streaming, subscribed, and was
\* told "failed"
C8_Witness ==
    \E h \in Handlers :
        /\ handlers[h].pc = "streaming"
        /\ Known(handlers[h].run_id)
        /\ handlers[h].connected = "failed"
        /\ h \in SeqToSet(runs[handlers[h].run_id].subscribers)
        /\ Len(runs[handlers[h].run_id].log) = handlers[h].log_count
        /\ handlers[h].log_count > 0

(***************************************************************************)
(* Validation of the references                                            *)
(***************************************************************************)
\* C9: every registered graph has pairwise distinct node names.
C9_DistinctNames ==
    \A id \in DOMAIN graphs :
        \A i, j \in 1..Len(graphs[id].nodes) :
            graphs[id].nodes[i].name = graphs[id].nodes[j].name => i = j

\* the references validate_graph tests on a node of this type
References(node) ==
    {node.next}
    \cup (IF node.type = "conditional"
          THEN {Get(node.config, "on_true", Null), Get(node.config, "on_false", Null)}
          ELSE {})
    \cup (IF node.type = "loop"
          THEN {Get(node.config, "body", Null), Get(node.config, "after", Null)}
          ELSE {})

NonBodySucc(g, n) ==
    LET node == node_lookup(g, n)
        refs == {node.next}
                \cup (IF node.type = "conditional"
                      THEN {Get(node.config, "on_true", Null), Get(node.config, "on_false", Null)}
                      ELSE {})
                \cup (IF node.type = "loop" THEN {Get(node.config, "after", Null)} ELSE {})
    IN  refs \cap NodeNames(g)

\* the nodes reached from `from` along such successors
RECURSIVE Reach(_, _)
Reach(g, from) ==
    LET more == from \cup UNION {NonBodySucc(g, n) : n \in from}
    IN  IF more = from THEN from ELSE Reach(g, more)

\* every cycle of the successor relation goes through the body edge of a loop
Bounded(g) == \A n \in NodeNames(g) : n \notin Reach(g, NonBodySucc(g, n))

\* C4 as amended: a run of a graph in which every cycle goes through the body edge
\* of a loop node eventually is completed or failed.
C4_BoundedTerminates ==
    \A r \in RunIds :
        (Known(r) /\ Bounded(tasks[r].graph)) ~> (Known(r) /\ runs[r].status \in Terminal)

\* the loop of GLoop was cut at its two iterations and the run has completed
C4_Witness ==
    /\ Known(1)
    /\ tasks[1].graph = GLoop
    /\ Bounded(tasks[1].graph)
    /\ runs[1].status = "completed"
    /\ runs[1].loop_counts = Map1("L", 2)

\* C4 as stated: every run eventually is completed or failed
C4_AlwaysTerminates ==
    \A r \in RunIds : Known(r) ~> (Known(r) /\ runs[r].status \in Terminal)

(***************************************************************************)
(* Determinism                                                             *)
(***************************************************************************)
\* the state bag a run was started with: the snapshot of its first log entry
InitialState(r) == runs[r].log[1].state_snapshot

\* the node names and phases of a log
Shape(log) == [i \in 1..Len(log) |-> <<log[i].node, log[i].status>>]

\* C11: two runs of the same graph started from the same state bag, once both are
\* terminal, have the same status, the same final state and logs of the same
\* shape, whatever other runs, readers and subscribers did meanwhile.
C11_Deterministic ==
    \A r, q \in RunIds :
        /\ Known(r) /\ Known(q)
        /\ runs[r].status \in Terminal /\ runs[q].status \in Terminal
        /\ tasks[r].graph = tasks[q].graph
        /\ InitialState(r) = InitialState(q)
        => /\ runs[r].status = runs[q].status
           /\ DeepMap(runs[r].state, runs[r].objects) = DeepMap(runs[q].state, runs[q].objects)
           /\ Shape(runs[r].log) = Shape(runs[q].log)

\* two runs of GDouble from x = 3 have both completed
C11_Witness ==
    /\ Known(1) /\ Known(2)
    /\ tasks[1].graph = GDouble /\ tasks[2].graph = GDouble
    /\ runs[1].status = "completed" /\ runs[2].status = "completed"
    /\ InitialState(1) = InitialState(2)
    /\ runs[1].state = Map1("x", IntV(12))

(***************************************************************************)
(* The scenario of GDouble from x = 3                                      *)
(***************************************************************************)
\* the visits A, B, A, B with the value of x in the snapshot of each entry
ScenarioShape ==
    <<<<"A", "start">>, <<"A", "end">>, <<"B", "start">>, <<"B", "end">>,
      <<"A", "start">>, <<"A", "end">>, <<"B", "start">>, <<"B", "end">>>>

ScenarioX == <<3, 6, 6, 6, 6, 12, 12, 12>>

\* C12: a run of GDouble from {x: 3} never fails; its log is at every moment a
\* prefix of the start and end entries of the visits A, B, A, B with x going
\* 3, 6, 12; it is complete exactly when the run is completed, and then x = 12.
C12_Scenario ==
    \A r \in RunIds :
        /\ Known(r)
        /\ tasks[r].graph = GDouble
        /\ runs[r].log # <<>>
        /\ InitialState(r) = Map1("x", IntV(3))
        => /\ runs[r].status # "failed"
           /\ Len(runs[r].log) <= Len(ScenarioShape)
           /\ Shape(runs[r].log) = SubSeq(ScenarioShape, 1, Len(runs[r].log))
           /\ \A i \in 1..Len(runs[r].log) :
                 runs[r].log[i].state_snapshot = Map1("x", IntV(ScenarioX[i]))
           /\ runs[r].status = "completed" <=>
                 (Len(runs[r].log) = Len(ScenarioShape) /\ tasks[r].pc = "done")
           /\ runs[r].status = "completed" =>
                 /\ runs[r].state = Map1("x", IntV(12))
                 /\ Cardinality({i \in 1..Len(runs[r].log) :
                                    Shape(runs[r].log)[i] = <<"A", "start">>}) = 2

\* the run has completed with x = 12 after eight entries
C12_Witness ==
    \E r \in RunIds :
        /\ Known(r)
        /\ tasks[r].graph = GDouble
        /\ runs[r].status = "completed"
        /\ Len(runs[r].log) = 8
        /\ runs[r].state = Map1("x", IntV(12))

(***************************************************************************)
(* Bracketing of the visits                                                *)
(***************************************************************************)
\* C13: in the log of a run a start entry is followed at once by the end entry or
\* the error entry of the same node (or is the last entry while the tool of that
\* visit is awaited), an end entry directly follows the start entry of its node,
\* and an error entry directly follows a start entry of its node and is the last
\* entry; the events node_start, node_end and run_failed are ordered the same way.
C13_Bracketed ==
    \A r \in RunIds : Known(r) =>
        LET log == runs[r].log
            p == published[r]
        IN  /\ \A i \in 1..Len(log) :
                  /\ log[i].status = "start" =>
                        IF i < Len(log)
                        THEN /\ log[i + 1].node = log[i].node
                             /\ log[i + 1].status \in {"end", "error"}
                        ELSE tasks[r].pc = "tool" /\ tasks[r].current = log[i].node
                  /\ log[i].status = "end" =>
                        /\ i > 1
                        /\ log[i - 1].status = "start"
                        /\ log[i - 1].node = log[i].node
                        /\ i < Len(log) => log[i + 1].status = "start"
                  /\ log[i].status = "error" =>
                        /\ i = Len(log)
                        /\ i > 1
                        /\ log[i - 1].status = "start"
                        /\ log[i - 1].node = log[i].node
                        /\ runs[r].status = "failed"
            /\ \A i \in 1..Len(p) :
                  /\ p[i].event = "node_start" =>
                        IF i < Len(p)
                        THEN \/ p[i + 1].event = "node_end" /\ p[i + 1].node = p[i].node
                             \/ p[i + 1].event = "run_failed"
                        ELSE tasks[r].pc = "tool" /\ tasks[r].current = p[i].node
                  /\ p[i].event = "node_end" =>
                        /\ i > 1
                        /\ p[i - 1].event = "node_start"
                        /\ p[i - 1].node = p[i].node
                        /\ i < Len(p) => p[i + 1].event \in {"node_start", "run_completed"}
                  /\ p[i].event = "run_failed" =>
                        /\ i = Len(p)
                        /\ i > 1
                        /\ p[i - 1].event = "node_start"
            /\ Len(p) = Len(log) + (IF p = <<>> THEN 0 ELSE 1)
                               + (IF runs[r].status = "completed" THEN 1 ELSE 0)

\* a run went through one whole visit and failed in its second one
C13_Witness ==
    /\ Known(1)
    /\ runs[1].status = "failed"
    /\ Shape(runs[1].log) = <<<<"A", "start">>, <<"A", "end">>, <<"B", "start">>, <<"B", "error">>>>
    /\ Last(published[1]).event = "run_failed"

(***************************************************************************)
(* A tool that is not registered                                           *)
(***************************************************************************)
\* node n of the graph is a tool node whose tool name is not registered
Unregistered(graph, n) ==
    /\ n \in NodeNames(graph)
    /\ node_lookup(graph, n).type = "tool"
    /\ Truthy(Get(node_lookup(graph, n).config, "tool", Null))
    /\ Get(node_lookup(graph, n).config, "tool", Null) \notin RegisteredTools

\* C14: the step of a run that reaches a tool node whose tool is not registered
\* makes the run failed; the log gains the start entry of that node and an error
\* entry of that node whose detail names the tool, and no end entry; the state bag
\* is as it was before the visit; the run stays so.
C14_UnregisteredTool ==
    /\ [](\A r \in RunIds :
            Known(r) /\ tasks[r].exc.kind = "tool_not_registered" =>
                /\ runs[r].status = "failed"
                /\ Last(runs[r].log).status = "error"
                /\ Last(runs[r].log).detail = tasks[r].exc
                /\ Unregistered(tasks[r].graph, Last(runs[r].log).node)
                /\ tasks[r].exc.arg =
                      node_lookup(tasks[r].graph, Last(runs[r].log).node).config["tool"])
    /\ [][\A r \in RunIds :
            /\ Known(r)
            /\ tasks'[r] # tasks[r]
            /\ tasks[r].pc = "loop"
            /\ Unregistered(tasks[r].graph, tasks[r].current)
            => LET n == tasks[r].current
                   tool == node_lookup(tasks[r].graph, n).config["tool"]
                   state == runs[r].state
               IN  /\ runs'[r].status = "failed"
                   /\ runs'[r].log =
                         runs[r].log \o
                            <<LogEntry(n, "start", NoErr, state),
                              LogEntry(n, "error", Err("tool_not_registered", tool), state)>>
                   /\ runs'[r].state = state
                   /\ runs'[r].objects = runs[r].objects
                   /\ tasks'[r].pc = "done"
      ]_vars

\* the run of GThenGhost from x = 3 doubled x and failed at the tool ghost
C14_Witness ==
    /\ Known(1)
    /\ tasks[1].graph = GThenGhost
    /\ runs[1].status = "failed"
    /\ tasks[1].exc = Err("tool_not_registered", "ghost")
    /\ Last(runs[1].log).node = "B"
    /\ runs[1].state = Map1("x", IntV(6))

(***************************************************************************)
(* Comparison                                                              *)
(***************************************************************************)
OrderingOperators == {">", ">=", "<", "<="}

CompareValues == {NoneV, IntV(3), IntV(10), IntV(12)}

\* run r is about to dispatch node n, a conditional or a loop that reads a key
Dispatching(r, n) ==
    /\ Known(r)
    /\ tasks[r].pc = "loop"
    /\ tasks[r].current = n
    /\ n \in NodeNames(tasks[r].graph)
    /\ node_lookup(tasks[r].graph, n).type \in {"conditional", "loop"}
    /\ Get(node_lookup(tasks[r].graph, n).config, "key", Null) # Null

\* C15: == and != compare the two values directly, None included; an ordering
\* operator with None on either side is false and does not raise; the visit of a
\* conditional or loop node whose key is missing from the state bag, with an
\* ordering operator, does not fail the run and takes the branch of a condition
\* that does not hold.
C15_Compare ==
    /\ [](\A value \in CompareValues, target \in CompareValues :
            /\ compare(value, "==", target) = [raised |-> FALSE, result |-> value = target]
            /\ compare(value, "!=", target) = [raised |-> FALSE, result |-> value # target]
            /\ \A op \in OrderingOperators :
                  /\ ~compare(value, op, target).raised
                  /\ value = NoneV \/ target = NoneV => ~compare(value, op, target).result)
    /\ [][\A r \in RunIds, n \in {"N"} :
            /\ Dispatching(r, n)
            /\ tasks'[r] # tasks[r]
            /\ Get(node_lookup(tasks[r].graph, n).config, "op", "==") \in OrderingOperators
            /\ \/ node_lookup(tasks[r].graph, n).config["key"] \notin DOMAIN runs[r].state
               \/ runs[r].state[node_lookup(tasks[r].graph, n).config["key"]] = NoneV
               \/ Get(node_lookup(tasks[r].graph, n).config, "value", NoneV) = NoneV
            => LET node == node_lookup(tasks[r].graph, n)
               IN  /\ runs'[r].status = "running"
                   /\ tasks'[r].exc = NoErr
                   /\ Last(runs'[r].log) = LogEntry(n, "end", NoErr, runs[r].state)
                   /\ runs'[r].loop_counts = runs[r].loop_counts
                   /\ tasks'[r].current =
                         IF node.type = "conditional"
                         THEN Or(Get(node.config, "on_false", Null), node.next)
                         ELSE Or(Get(node.config, "after", Null), node.next)
      ]_vars

\* a conditional N with the operator > and the target 3 was visited with x
\* missing from the state bag, and the run went on to its on_false and completed
C15_Witness ==
    /\ Known(1)
    /\ runs[1].status = "completed"
    /\ runs[1].state = EmptyMap
    /\ tasks[1].graph.nodes[1].type = "conditional"
    /\ Get(tasks[1].graph.nodes[1].config, "op", "==") = ">"
    /\ tasks[1].graph.nodes[1].config["value"] = IntV(3)
    /\ Shape(runs[1].log) = <<<<"N", "start">>, <<"N", "end">>, <<"F", "start">>, <<"F", "end">>>>

(***************************************************************************)
(* Successor of a conditional node                                         *)
(***************************************************************************)
\* the operator of a node: "==" when the config has none
OperatorOf(node) == IF "op" \in DOMAIN node.config THEN node.config["op"] ELSE "=="

\* whether the condition of the node holds of the state bag
Holds(node, state) ==
    compare(IF node.config["key"] \in DOMAIN state THEN state[node.config["key"]] ELSE NoneV,
            OperatorOf(node),
            IF "value" \in DOMAIN node.config THEN node.config["value"] ELSE NoneV).result

\* C16: the visit of a conditional node moves the run to on_true when the
\* comparison passes (to the end of the run when on_true is null, whatever next
\* is), and otherwise to on_false if it names a node, else to next; the operator is
\* == when the config has none; the visit changes neither the state bag nor the
\* loop counts.
C16_Conditional ==
    [][\A r \in RunIds, n \in {"N"} :
        /\ Dispatching(r, n)
        /\ tasks'[r] # tasks[r]
        /\ node_lookup(tasks[r].graph, n).type = "conditional"
        => LET node == node_lookup(tasks[r].graph, n)
               on_true == node.config["on_true"]
               on_false == node.config["on_false"]
           IN  /\ runs'[r].status = "running"
               /\ runs'[r].state = runs[r].state
               /\ runs'[r].loop_counts = runs[r].loop_counts
               /\ tasks'[r].current =
                     IF Holds(node, runs[r].state)
                     THEN on_true
                     ELSE IF on_false # Null THEN on_false ELSE node.next
               /\ Holds(node, runs[r].state) /\ on_true = Null =>
                     /\ tasks'[r].current = Null
                     /\ tasks'[r].pc = "loop"
                     /\ active' = r
      ]_vars

\* the comparison of a conditional N without operator passed for x = 3 against 3;
\* on_true was null and the run completed after that one visit although N has a
\* next
C16_Witness ==
    /\ Known(1)
    /\ runs[1].status = "completed"
    /\ runs[1].state = Map1("x", IntV(3))
    /\ tasks[1].graph.nodes[1].type = "conditional"
    /\ "op" \notin DOMAIN tasks[1].graph.nodes[1].config
    /\ tasks[1].graph.nodes[1].config["value"] = IntV(3)
    /\ tasks[1].graph.nodes[1].config["on_true"] = Null
    /\ tasks[1].graph.nodes[1].next = "E"
    /\ Shape(runs[1].log) = <<<<"N", "start">>, <<"N", "end">>>>

(***************************************************************************)
(* Successor of a loop node                                                *)
(***************************************************************************)
\* the stored iteration count of node n in run r, 0 if the loop was never entered
Count(r, n) == IF n \in DOMAIN runs[r].loop_counts THEN runs[r].loop_counts[n] ELSE 0

\* C17: the visit of a loop node, by whether its condition holds and by its stored
\* count: condition and count >= max_iterations (25 when not configured) give
\* `after` and leave the count; condition and count < max_iterations add exactly
\* one to the count of that node and give `body`; no condition gives `after` if it
\* names a node, else next, and leaves the count.  No step of the run removes or
\* decreases a stored count.
C17_Loop ==
    /\ [][\A r \in RunIds, n \in {"N"} :
            /\ Dispatching(r, n)
            /\ tasks'[r] # tasks[r]
            /\ node_lookup(tasks[r].graph, n).type = "loop"
            => LET node == node_lookup(tasks[r].graph, n)
                   after == node.config["after"]
                   max == IF "max_iterations" \in DOMAIN node.config
                          THEN node.config["max_iterations"] ELSE 25
               IN  /\ runs'[r].status = "running"
                   /\ runs'[r].state = runs[r].state
                   /\ Holds(node, runs[r].state) /\ Count(r, n) >= max =>
                         /\ tasks'[r].current = after
                         /\ runs'[r].loop_counts = runs[r].loop_counts
                   /\ Holds(node, runs[r].state) /\ Count(r, n) < max =>
                         /\ tasks'[r].current = node.config["body"]
                         /\ DOMAIN runs'[r].loop_counts = DOMAIN runs[r].loop_counts \cup {n}
                         /\ runs'[r].loop_counts[n] = Count(r, n) + 1
                         /\ \A o \in DOMAIN runs[r].loop_counts \ {n} :
                               runs'[r].loop_counts[o] = runs[r].loop_counts[o]
                   /\ ~Holds(node, runs[r].state) =>
                         /\ tasks'[r].current = (IF after # Null THEN after ELSE node.next)
                         /\ runs'[r].loop_counts = runs[r].loop_counts
       ]_vars
    /\ [][\A r \in RunIds : Known(r) =>
            \A n \in DOMAIN runs[r].loop_counts :
                /\ n \in DOMAIN runs'[r].loop_counts
                /\ runs'[r].loop_counts[n] >= runs[r].loop_counts[n]
       ]_vars

\* the loop of GReenter was cut at its one iteration, left through `after`, and
\* entered again twice with the count still 1, the second time with its condition
\* false
C17_Witness ==
    /\ Known(1)
    /\ tasks[1].graph = GReenter
    /\ runs[1].loop_counts = Map1("N", 1)
    /\ runs[1].state = Map1("x", IntV(12))
    /\ Shape(runs[1].log) =
          <<<<"N", "start">>, <<"N", "end">>, <<"T", "start">>, <<"T", "end">>,
            <<"N", "start">>, <<"N", "end">>, <<"F", "start">>, <<"F", "end">>,
            <<"N", "start">>, <<"N", "end">>, <<"F", "start">>, <<"F", "end">>>>

(***************************************************************************)
(* Visit of a tool node                                                    *)
(***************************************************************************)
\* run r resumes from the await of its tool, which did not raise
ToolReturns(r) ==
    /\ Known(r)
    /\ tasks[r].pc = "tool"
    /\ tasks'[r] # tasks[r]
    /\ ~ToolsInvoke(tasks[r].node.config["tool"], runs[r].state).raised

\* the mapping the tool of run r returns
Returned(r) == ToolsInvoke(tasks[r].node.config["tool"], runs[r].state).ret

\* C18 as stated: after the visit every returned key holds the returned value,
\* every other key has the value it had, a visit whose tool returns nothing leaves
\* the state bag as it was, and the run moves to the node's next.
C18_OnlyTheMerge ==
    [][\A r \in RunIds : ToolReturns(r) =>
        LET before == DeepMap(runs[r].state, runs[r].objects)
            after == DeepMap(runs'[r].state, runs'[r].objects)
        IN  /\ DOMAIN after = DOMAIN before \cup DOMAIN Returned(r)
            /\ \A k \in DOMAIN Returned(r) : after[k] = Returned(r)[k]
            /\ \A k \in DOMAIN before \ DOMAIN Returned(r) : after[k] = before[k]
            /\ Returned(r) = EmptyMap => after = before
            /\ tasks'[r].current = tasks[r].node.next
      ]_vars

\* the keys of the state bag that the tool assigned or whose list it changed in
\* place during the visit
Touched(r) ==
    DOMAIN ToolWrites(tasks[r].node.config["tool"], runs[r].state)
    \cup {k \in DOMAIN runs[r].state :
            Deep(runs[r].state[k], runs[r].objects) # Deep(runs[r].state[k], runs'[r].objects)}

\* C18 as amended: after the visit every returned key holds the returned value,
\* every key that the tool neither returned nor changed in place has the value it
\* had, each key of the bag is still in it, a tool that returns nothing and
\* changes nothing in place leaves the bag as it was, and the run moves to the
\* node's next; a tool that raises leaves the bag as it was.
C18_ToolMerge ==
    /\ [][\A r \in RunIds : ToolReturns(r) =>
            LET before == DeepMap(runs[r].state, runs[r].objects)
                after == DeepMap(runs'[r].state, runs'[r].objects)
            IN  /\ DOMAIN after = DOMAIN before \cup DOMAIN Returned(r) \cup Touched(r)
                /\ \A k \in DOMAIN Returned(r) : after[k] = Returned(r)[k]
                /\ \A k \in DOMAIN before \ (DOMAIN Returned(r) \cup Touched(r)) :
                      after[k] = before[k]
                /\ Returned(r) = EmptyMap /\ Touched(r) = {} => after = before
                /\ tasks'[r].current = tasks[r].node.next
                /\ runs'[r].status = "running"
       ]_vars
    /\ [][\A r \in RunIds :
            /\ Known(r)
            /\ tasks[r].pc = "tool"
            /\ tasks'[r] # tasks[r]
            /\ ToolsInvoke(tasks[r].node.config["tool"], runs[r].state).raised
            => /\ runs'[r].state = runs[r].state
               /\ runs'[r].objects = runs[r].objects
               /\ runs'[r].status = "failed"
       ]_vars

\* the tool double was visited with x = 3 and a list in the state bag: x is 6, the
\* list is as it was, and the run has gone on to next and completed
C18_Witness ==
    /\ Known(1)
    /\ runs[1].status = "completed"
    /\ tasks[1].graph.nodes[1] = ToolNode("N", "double", "E")
    /\ DeepMap(runs[1].state, runs[1].objects) =
          [x |-> IntV(6), items |-> [t |-> "list", items |-> <<>>]]
    /\ Shape(runs[1].log) = <<<<"N", "start">>, <<"N", "end">>, <<"E", "start">>, <<"E", "end">>>>

(***************************************************************************)
(* Isolation of the runs                                                   *)
(***************************************************************************)
\* _execute run from `current` with nothing else on the event loop, for at most
\* `fuel` visits: the status, state bag, objects, loop counts and log it ends with
RECURSIVE Alone(_, _, _, _, _, _, _)
Alone(graph, current, state, objects, loop_counts, log, fuel) ==
    LET started == Append(log, LogEntry(current, "start", NoErr, state))
        failed(exc) ==
            [status |-> "failed", state |-> state, objects |-> objects,
             loop_counts |-> loop_counts,
             log |-> Append(started, LogEntry(current, "error", exc, state))]
    IN  IF ~Truthy(current)
        THEN [status |-> "completed", state |-> state, objects |-> objects,
              loop_counts |-> loop_counts, log |-> log]
        ELSE IF fuel = 0
        THEN [status |-> "running", state |-> state, objects |-> objects,
              loop_counts |-> loop_counts, log |-> log]
        ELSE IF current \notin NodeNames(graph)
        THEN failed(Err("key_error", current))
        ELSE LET node == node_lookup(graph, current)
                 tool_name == Get(node.config, "tool", Null)
             IN  IF node.type = "tool"
                 THEN IF ~Truthy(tool_name)
                      THEN failed(Err("missing_tool", node.name))
                      ELSE IF ~ToolsGet(tool_name)
                      THEN failed(Err("tool_not_registered", tool_name))
                      ELSE LET result == ToolsInvoke(tool_name, state)
                               written == Update(state, ToolWrites(tool_name, state))
                               merged == IF result.ret # EmptyMap
                                         THEN Update(written, result.ret) ELSE written
                           IN  IF result.raised
                               THEN failed(result.err)
                               ELSE Alone(graph, node.next, merged,
                                          ToolObjects(tool_name, state, objects), loop_counts,
                                          Append(started,
                                                 LogEntry(node.name, "end", NoErr, merged)),
                                          fuel - 1)
                 ELSE LET out == IF node.type = "conditional"
                                 THEN evaluate_conditional(node, state, loop_counts)
                                 ELSE evaluate_loop(node, state, loop_counts)
                      IN  IF out.raised
                          THEN failed(out.err)
                          ELSE Alone(graph, out.next, state, objects, out.loop_counts,
                                     Append(started, LogEntry(node.name, "end", NoErr, state)),
                                     fuel - 1)

\* what run r ends with when it is the only run
AloneOf(r) ==
    Alone(tasks[r].graph, tasks[r].graph.start_at, InitialState(r),
          Objects(InitialState(r)), EmptyMap, <<>>, MaxLog)

\* the fields of a run that only its own task writes
Private(run) ==
    [state |-> run.state, objects |-> run.objects, log |-> run.log,
     current_node |-> run.current_node, loop_counts |-> run.loop_counts,
     status |-> run.status]

\* C19: a step changes the state bag, log, current_node, loop counts or status of
\* a run only if it is a step of that run's own task; and a terminal run has the
\* status, state bag, loop counts and log that its graph and initial state give
\* when run alone, whatever the other run did meanwhile.
C19_Isolated ==
    /\ [][\A r \in RunIds : Known(r) /\ Private(runs'[r]) # Private(runs[r]) =>
            /\ tasks'[r] # tasks[r]
            /\ \A q \in RunIds \ {r} : Known(q) =>
                  Private(runs'[q]) = Private(runs[q]) /\ tasks'[q] = tasks[q]
       ]_vars
    /\ [](\A r \in RunIds : Known(r) /\ runs[r].status \in Terminal =>
            /\ AloneOf(r).status = runs[r].status
            /\ AloneOf(r).state = runs[r].state
            /\ AloneOf(r).objects = runs[r].objects
            /\ AloneOf(r).loop_counts = runs[r].loop_counts
            /\ AloneOf(r).log = runs[r].log)

\* two runs of GLoop at once: one has completed after its two iterations while
\* the other, begun before that, awaits the tool of its first iteration
C19_Witness ==
    \E r, q \in RunIds :
        /\ Known(r) /\ Known(q)
        /\ tasks[r].graph = GLoop /\ tasks[q].graph = GLoop
        /\ runs[r].status = "completed"
        /\ runs[r].loop_counts = Map1("L", 2)
        /\ runs[q].status = "running"
        /\ tasks[q].pc = "tool"
        /\ runs[q].loop_counts = Map1("L", 1)

(***************************************************************************)
(* Snapshots of the log                                                    *)
(***************************************************************************)
\* the snapshot of an entry as a reader of the log sees it
SnapshotOf(entry, objects) == DeepMap(entry.state_snapshot, objects)

\* C20: no step changes the snapshot that an entry already in the log shows.
C20_DeepSnapshots ==
    [][\A r \in RunIds : Known(r) =>
        \A i \in 1..Len(runs[r].log) :
            /\ i <= Len(runs'[r].log)
            /\ SnapshotOf(runs'[r].log[i], runs'[r].objects) =
                  SnapshotOf(runs[r].log[i], runs[r].objects)
      ]_vars

(***************************************************************************)
(* Suspension points                                                       *)
(***************************************************************************)
\* run r's task does not hold the event loop: another task may run and read r
Observable(r) == Known(r) /\ active # r

\* the task of r is suspended in `await self.tools.invoke(...)` of a tool node
AwaitingTool(r) ==
    /\ runs[r].status = "running"
    /\ runs[r].log # <<>>
    /\ Last(runs[r].log).status = "start"
    /\ Last(runs[r].log).node = runs[r].current_node
    /\ runs[r].current_node \in NodeNames(tasks[r].graph)
    /\ node_lookup(tasks[r].graph, runs[r].current_node).type = "tool"

\* C21: whenever another task can run, a run is pending with an empty log, or
\* running with the start entry of the tool node current_node as its last entry,
\* or terminal; and what a connection read from get_run when it connected is one
\* of these: pending with no entry, running with an odd number of entries,
\* completed with an even number.
C21_SuspendsOnlyInTools ==
    /\ \A r \in RunIds : Observable(r) =>
           \/ runs[r].status = "pending" /\ runs[r].log = <<>>
           \/ AwaitingTool(r)
           \/ runs[r].status \in Terminal
    /\ \A h \in Connections : handlers[h].pc \in {"streaming", "closed"} =>
           /\ handlers[h].connected = "pending" => handlers[h].log_count = 0
           /\ handlers[h].connected = "running" => handlers[h].log_count % 2 = 1
           /\ handlers[h].connected = "completed" => handlers[h].log_count % 2 = 0

\* a run of GDouble has been through its conditional B and awaits the tool of A a
\* second time, while a second run is under way and a connection that subscribed
\* at this point read five entries
C21_Witness ==
    \E r, q \in RunIds :
        /\ r # q /\ Known(r) /\ Known(q)
        /\ active = 0
        /\ tasks[r].graph = GDouble
        /\ tasks[r].pc = "tool"
        /\ Len(runs[r].log) = 5
        /\ runs[r].log[4].node = "B" /\ runs[r].log[4].status = "end"
        /\ runs[q].status = "running"
        /\ handlers[1].run_id = r
        /\ handlers[1].connected = "running"
        /\ handlers[1].log_count = 5

(***************************************************************************)
(* Bounded runs: every definition of two nodes N and T over loops,         *)
(* conditionals and tools that leave the state bag alone, run once under   *)
(* the scheduling of the event loop                                        *)
(***************************************************************************)
\* the sum of max_iterations over the loop nodes among `names`
RECURSIVE SumBounds(_, _)
SumBounds(g, names) ==
    IF names = {}
    THEN 0
    ELSE LET n == CHOOSE m \in names : TRUE
             node == node_lookup(g, n)
         IN  (IF node.type = "loop" THEN MaxIterations(node) ELSE 0)
             + SumBounds(g, names \ {n})

\* a body edge is taken at most max_iterations times, and between two body edges
\* a run visits no node twice
VisitBound(g) == Cardinality(NodeNames(g)) * (1 + SumBounds(g, NodeNames(g)))

\* the node visits of a run: the start entries of its log
Visits(r) == Cardinality({i \in 1..Len(runs[r].log) : runs[r].log[i].status = "start"})

BoundedFirstNodes ==
    {Node("N", "loop", next,
          [key |-> "x", op |-> "<", value |-> IntV(10), body |-> b, after |-> a,
           max_iterations |-> m]) :
        next \in {Null, "T"}, b \in {"N", "T"}, a \in {Null, "N", "T"}, m \in 0..2}
    \cup {Node("N", "conditional", Null,
               [key |-> "x", op |-> "<", value |-> IntV(10), on_true |-> t, on_false |-> f]) :
            t \in {Null, "N", "T"}, f \in {Null, "T"}}

BoundedSecondNodes ==
    {ToolNode("T", "noop", next) : next \in {Null, "N"}}
    \cup {Node("T", "loop", Null,
               [key |-> "x", op |-> "<", value |-> IntV(10), body |-> "N", after |-> a,
                max_iterations |-> m]) :
            a \in {Null, "N"}, m \in 0..1}

\* the definitions whose log, when every cycle goes through a body edge, fits
\* twice over in the entries the model keeps
BoundedGraphs ==
    {g \in {Graph("g", "N", <<n1, n2>>) : n1 \in BoundedFirstNodes, n2 \in BoundedSecondNodes}
            \cup {Graph("g", "N", <<n1>>) : n1 \in {n \in BoundedFirstNodes :
                                                        "T" \notin References(n)}} :
        Bounded(g) => 2 * VisitBound(g) < MaxLog}

BoundedStates == {Map1("x", IntV(3)), Map1("x", IntV(12))}

NextBounded ==
    \/ \E raw \in BoundedGraphs : runs = <<>> /\ CreateGraph(raw)
    \/ \E s \in BoundedStates, w \in BOOLEAN : RunGraph(1, "g", s, w)
    \/ Resume(1)
    \/ Begin(1)
    \/ Visit(1)
    \/ ToolDone(1)
    \/ Finish(1)

SpecBounded == Init /\ [][NextBounded]_vars /\ WF_vars(Engine(1))

\* C22: a run of a graph in which every cycle of the successor relation goes
\* through the body edge of a loop node, with max_iterations a natural number in
\* every loop node, never makes more node visits than the node count times one
\* more than the sum of the max_iterations values, and eventually is completed or
\* failed.
C22_BoundedVisits ==
    /\ [](\A r \in RunIds : Known(r) /\ Bounded(tasks[r].graph) =>
              Visits(r) <= VisitBound(tasks[r].graph))
    /\ \A r \in RunIds :
           (Known(r) /\ Bounded(tasks[r].graph)) ~>
               (Known(r) /\ runs[r].status \in Terminal
                         /\ Visits(r) <= VisitBound(tasks[r].graph))

\* N loops over the body T, which leads back to N, at most once: the run went
\* N, T, N and has completed
C22_Witness ==
    /\ Known(1)
    /\ Bounded(tasks[1].graph)
    /\ NodeNames(tasks[1].graph) = {"N", "T"}
    /\ node_lookup(tasks[1].graph, "N").type = "loop"
    /\ "N" \in NonBodySucc(tasks[1].graph, "T")
    /\ runs[1].status = "completed"
    /\ runs[1].loop_counts = Map1("N", 1)
    /\ Visits(1) = 3

(***************************************************************************)
(* Consistency of status, current_node and log                             *)
(***************************************************************************)
\* the positions of the error entries of a log
ErrorPositions(log) == {i \in 1..Len(log) : log[i].status = "error"}

\* C23: in every state another task can observe, a completed run has no
\* current_node and a non-empty log of even length ending with an end entry; a
\* failed run has no current_node and its last entry is its only error entry; a
\* running run has no error entry; an error entry is never anywhere but last.
C23_Consistent ==
    \A r \in RunIds : Observable(r) =>
        LET run == runs[r]
        IN  /\ run.status = "completed" =>
                 /\ run.current_node = Null
                 /\ run.log # <<>>
                 /\ Len(run.log) % 2 = 0
                 /\ Last(run.log).status = "end"
            /\ run.status = "failed" =>
                 /\ run.current_node = Null
                 /\ ErrorPositions(run.log) = {Len(run.log)}
            /\ run.status = "running" => ErrorPositions(run.log) = {}
            /\ ErrorPositions(run.log) \subseteq {Len(run.log)}

(***************************************************************************)
(* Frame of a node visit and of subscribe / unsubscribe                    *)
(***************************************************************************)
\* the step is the dispatch, by run r's task, of a node of its graph
VisitOf(r) ==
    /\ Known(r)
    /\ tasks[r].pc = "loop"
    /\ tasks'[r] # tasks[r]
    /\ Truthy(tasks[r].current)
    /\ tasks[r].current \in NodeNames(tasks[r].graph)

\* the node dispatched by such a step
Visited(r) == node_lookup(tasks[r].graph, tasks[r].current)

\* a run but for its subscribers
Unsubscribed(run) == [run EXCEPT !.subscribers = <<>>]

\* C24: the visit of a conditional or loop node leaves the state bag as it was,
\* and its start and end entries hold equal snapshots; the visit of a loop node
\* changes no entry of loop_counts but its own, which stays or grows by one; the
\* visit of a conditional node and both halves of the visit of a tool node leave
\* loop_counts as they were; a step that changes the subscribers of a run (subscribe,
\* unsubscribe) changes nothing else of that run, nothing of another run, and no
\* task.
C24_Frame ==
    [][\A r \in RunIds :
        /\ VisitOf(r) /\ Visited(r).type \in {"conditional", "loop"} =>
              /\ runs'[r].state = runs[r].state
              /\ runs'[r].objects = runs[r].objects
              /\ Last(runs'[r].log).status = "end" =>
                    /\ Len(runs'[r].log) = Len(runs[r].log) + 2
                    /\ runs'[r].log[Len(runs'[r].log) - 1].status = "start"
                    /\ SnapshotOf(runs'[r].log[Len(runs'[r].log) - 1], runs'[r].objects)
                          = SnapshotOf(Last(runs'[r].log), runs'[r].objects)
                    /\ Last(runs'[r].log).state_snapshot = runs[r].state
        /\ VisitOf(r) /\ Visited(r).type = "loop" =>
              /\ DOMAIN runs'[r].loop_counts \subseteq DOMAIN runs[r].loop_counts
                                                          \cup {Visited(r).name}
              /\ \A n \in DOMAIN runs[r].loop_counts \ {Visited(r).name} :
                     runs'[r].loop_counts[n] = runs[r].loop_counts[n]
              /\ Get(runs'[r].loop_counts, Visited(r).name, 0)
                    - Get(runs[r].loop_counts, Visited(r).name, 0) \in {0, 1}
        /\ VisitOf(r) /\ Visited(r).type \in {"conditional", "tool"} =>
              runs'[r].loop_counts = runs[r].loop_counts
        /\ Known(r) /\ tasks[r].pc = "tool" /\ tasks'[r] # tasks[r] =>
              runs'[r].loop_counts = runs[r].loop_counts
        /\ Known(r) /\ runs'[r].subscribers # runs[r].subscribers =>
              /\ Unsubscribed(runs'[r]) = Unsubscribed(runs[r])
              /\ \A q \in RunIds \ {r} : Known(q) => runs'[q] = runs[q]
              /\ Len(runs') = Len(runs)
              /\ UNCHANGED <<tasks, published, graphs, active>>
      ]_vars

\* a run of GLoop has completed after counting two iterations of L and its
\* subscriber, having received run_completed, has unsubscribed; another run, of
\* GDouble, has been through its conditional B
C24_Witness ==
    \E r, q \in RunIds :
        /\ r # q /\ Known(r) /\ Known(q)
        /\ tasks[r].graph = GLoop
        /\ runs[r].status = "completed"
        /\ runs[r].loop_counts = Map1("L", 2)
        /\ handlers[1].run_id = r
        /\ handlers[1].last_sent = "run_completed"
        /\ runs[r].subscribers = <<>>
        /\ tasks[q].graph = GDouble
        /\ Len(runs[q].log) >= 4
        /\ runs[q].log[4].node = "B" /\ runs[q].log[4].status = "end"
        /\ runs[q].loop_counts = EmptyMap

(***************************************************************************)
(* The code review: the graph register_code_review_workflow registers, run *)
(* once on every code of up to MaxLines lines                              *)
(***************************************************************************)
GCodeReview ==
    Graph("code_review", "extract",
          <<ToolNode("extract", "extract_functions", "complexity"),
            ToolNode("complexity", "check_complexity", "detect"),
            ToolNode("detect", "detect_basic_issues", "suggest"),
            ToolNode("suggest", "suggest_improvements", "quality_gate"),
            Node("quality_gate", "conditional", Null,
                 [key |-> "quality_score", op |-> ">=", value |-> DecV(80),
                  on_true |-> Null, on_false |-> "refine"]),
            ToolNode("refine", "refine_suggestions", "quality_gate")>>)

\* `def f():`; `if x:`; an `if` line of more than 100 characters; an `if` line
\* with a TODO comment
LineKinds ==
    {Line(TRUE, FALSE, FALSE, FALSE), Line(FALSE, TRUE, FALSE, FALSE),
     Line(FALSE, TRUE, TRUE, FALSE), Line(FALSE, TRUE, FALSE, TRUE)}

ReviewCodes == UNION {[1..n -> LineKinds] : n \in 0..MaxLines}

\* initial states with a string `code`, alone or beside keys the tools write; one
\* without `code`; one whose `code` is no string
ReviewStates ==
    {Map1("code", StrV(c)) : c \in ReviewCodes}
    \cup {[code |-> StrV(<<Line(FALSE, TRUE, FALSE, TRUE)>>), quality_score |-> DecV(10),
           issues |-> IntV(3)],
          EmptyMap,
          Map1("code", IntV(3))}

NextReview ==
    \/ runs = <<>> /\ CreateGraph(GCodeReview)
    \/ \E s \in ReviewStates : RunGraph(1, "code_review", s, TRUE)
    \/ Resume(1)
    \/ Begin(1)
    \/ Visit(1)
    \/ ToolDone(1)
    \/ Finish(1)

SpecReview == Init /\ [][NextReview]_vars /\ WF_vars(Engine(1))

\* run r is a run of the code review on a string
Reviewing(r) ==
    /\ Known(r)
    /\ tasks[r].graph = GCodeReview
    /\ "code" \in DOMAIN runs[r].state
    /\ runs[r].state["code"].t = "str"

\* the visits of a review, with and without the round through refine
ReviewPath(refined) ==
    <<"extract", "complexity", "detect", "suggest", "quality_gate">>
    \o (IF refined THEN <<"refine", "quality_gate">> ELSE <<>>)

\* the log entries of a sequence of completed visits, by node and phase
EntriesOf(path) ==
    [i \in 1..(2 * Len(path)) |-> <<path[(i + 1) \div 2], IF i % 2 = 1 THEN "start" ELSE "end">>]

\* the entries of a log that the model keeps
Window(s) == IF Len(s) <= MaxLog THEN s ELSE SubSeq(s, Len(s) - MaxLog + 1, Len(s))

\* C25: a run of the code review on a string never fails and eventually is
\* completed; its log is at every moment the beginning of extract, complexity,
\* detect, suggest, quality_gate, followed or not by one round refine,
\* quality_gate, and is all of it when the run is completed; quality_score is
\* 1.0, 0.9, 0.8 or 0.7 at the end of suggest, 0.1 more at the end of refine than
\* at its start, and at least 0.8 when the run is completed.
C25_CodeReview ==
    /\ [](\A r \in RunIds : Reviewing(r) =>
            /\ runs[r].status # "failed"
            /\ \E refined \in BOOLEAN :
                  \E k \in 0..(2 * Len(ReviewPath(refined))) :
                      /\ Shape(runs[r].log) = Window(SubSeq(EntriesOf(ReviewPath(refined)), 1, k))
                      /\ runs[r].status = "completed" => k = 2 * Len(ReviewPath(refined))
            /\ \A i \in 1..Len(runs[r].log) :
                  LET entry == runs[r].log[i]
                  IN  /\ entry.node = "suggest" /\ entry.status = "end" =>
                            entry.state_snapshot["quality_score"]
                                \in {DecV(100), DecV(90), DecV(80), DecV(70)}
                      /\ entry.node = "refine" /\ entry.status = "end" =>
                            entry.state_snapshot["quality_score"].v =
                                runs[r].log[i - 1].state_snapshot["quality_score"].v + 10
            /\ runs[r].status = "completed" => runs[r].state["quality_score"].v >= 80)
    /\ \A r \in RunIds : Reviewing(r) ~> (Reviewing(r) /\ runs[r].status = "completed")

\* a code of five branching lines, one of them too long and one with a TODO, got
\* three suggestions and the score 0.7, went once through refine and completed
\* with the score 0.8
C25_Witness ==
    /\ Reviewing(1)
    /\ runs[1].status = "completed"
    /\ Len(runs[1].state["suggestions"].items) = 4
    /\ runs[1].state["avg_complexity"] = DecV(600)
    /\ runs[1].state["quality_score"] = DecV(80)
    /\ Shape(runs[1].log) = Window(EntriesOf(ReviewPath(TRUE)))

====
